---- MODULE Spec2Model ----
(***************************************************************************)
(* EMatrix plugin (src/main.ts): the task extractor                        *)
(* extractTasksFromContent and the classifier / renderer                   *)
(* createEisenhowerMatrixContent.                                          *)
(*                                                                         *)
(* Text is modelled at the level of characters: a string is a sequence of  *)
(* one-character strings, so the regular expressions of the source are     *)
(* computed, not assumed.                                                  *)
(***************************************************************************)
EXTENDS Integers, Sequences, FiniteSets, Bags, TLC

VARIABLES
    pc,             \* position of the modelled call (main.ts:388-580)
    lines,          \* extractTasksFromContent: content.split (main.ts:389)
    i,              \* extractTasksFromContent: loop index, 1-based (main.ts:400)
    tasks,          \* extractTasksFromContent: the result (main.ts:390)
    inList,         \* extractTasksFromContent: list-context flag (main.ts:393)
    previousIndent, \* extractTasksFromContent: last accepted indent (main.ts:394)
    origin,         \* history: origin[k] is the line that pushed tasks[k]
    matrixTasks,    \* createEisenhowerMatrixContent: tasks parameter (main.ts:457)
    title,          \* createEisenhowerMatrixContent: title parameter (main.ts:457)
    taskIndex,      \* createEisenhowerMatrixContent: forEach position (main.ts:470)
    urgentImportant,        \* bucket "Do First" (main.ts:459)
    notUrgentImportant,     \* bucket "Schedule" (main.ts:460)
    urgentNotImportant,     \* bucket "Delegate" (main.ts:461)
    notUrgentNotImportant,  \* bucket "Eliminate" (main.ts:462)
    backlog,                \* bucket "Backlog" (main.ts:463)
    placed,         \* history: placed[b] lists the tasks pushed to bucket b
    flags,          \* history: flags[n] are the tag tests made on task n
    block,          \* createEisenhowerMatrixContent: returned content (main.ts:525-579)
    stripInput,     \* tag removal alone: the task string (main.ts:479)
    stripOnce,      \* tag removal alone: cleanTask of stripInput
    stripTwice,     \* tag removal alone: cleanTask of stripOnce
    vaultContent,   \* the note in the vault: what vault.read gives (main.ts:213)
    viewFile,       \* what the active Markdown view shows (main.ts:199-201)
    hasFocus,       \* activeView.editor.hasFocus() (main.ts:202)
    editorContent,  \* editor.getValue() of the view that shows the note (main.ts:268)
    cursor,         \* editor.getCursor(), line and ch from 0 (main.ts:271)
    showEisenhowerMatrix,   \* settings.showEisenhowerMatrix (main.ts:258)
    debouncePending,        \* the debounce timer runs (main.ts:34-46, 72)
    calls,          \* the calls of processFile between their start and their end
    ended,          \* history: how the call ended that the last step ended
    commandRun      \* history: the last step ran the command

extractVars == <<lines, i, tasks, inList, previousIndent, origin>>

matrixVars ==
    <<matrixTasks, title, taskIndex, urgentImportant, notUrgentImportant,
      urgentNotImportant, notUrgentNotImportant, backlog, placed, flags, block>>

stripVars == <<stripInput, stripOnce, stripTwice>>

hostVars ==
    <<vaultContent, viewFile, hasFocus, editorContent, cursor, showEisenhowerMatrix,
      debouncePending, calls, ended, commandRun>>

(***************************************************************************)
(* Bounds of the model.                                                    *)
(***************************************************************************)
MaxLines == 3
MaxTasks == 3
MaxStripLen == 5
MaxCalls == 2

(***************************************************************************)
(* Characters and the character classes of the regular expressions.        *)
(***************************************************************************)
\* \s of a JavaScript regular expression, for the characters a line can hold
IsSpace(c) == c \in {" ", "\t", "\r"}

\* the characters '.' does not match
IsLineTerminator(c) == c \in {"\n", "\r"}

\* number of leading space characters: what the greedy leading group of the
\* patterns captures, the next pattern character being no space
LeadingSpaces(s) ==
    CHOOSE n \in 0..Len(s) :
        /\ \A k \in 1..n : IsSpace(s[k])
        /\ (n = Len(s) \/ ~IsSpace(s[n + 1]))

TrailingSpaces(s) ==
    CHOOSE n \in 0..Len(s) :
        /\ \A k \in (Len(s) - n + 1)..Len(s) : IsSpace(s[k])
        /\ (n = Len(s) \/ ~IsSpace(s[Len(s) - n]))

\* String.prototype.trim
trim(s) ==
    IF LeadingSpaces(s) = Len(s)
    THEN <<>>
    ELSE SubSeq(s, LeadingSpaces(s) + 1, Len(s) - TrailingSpaces(s))

(***************************************************************************)
(* The checklist pattern of line.match: start of line, a run of spaces     *)
(* (group 1), "- [", a blank or an x (group 2), "] ", and one or more      *)
(* characters other than line terminators up to the end (group 3).         *)
(* ok: whether the line matches; the groups are meaningful when ok.        *)
(***************************************************************************)
taskMatch(line) ==
    LET n == LeadingSpaces(line) IN
    IF /\ Len(line) >= n + 7
       /\ line[n + 1] = "-"
       /\ line[n + 2] = " "
       /\ line[n + 3] = "["
       /\ line[n + 4] \in {" ", "x"}
       /\ line[n + 5] = "]"
       /\ line[n + 6] = " "
       /\ \A k \in (n + 7)..Len(line) : ~IsLineTerminator(line[k])
    THEN [ok |-> TRUE, g1 |-> SubSeq(line, 1, n), g2 |-> line[n + 4],
          g3 |-> SubSeq(line, n + 7, Len(line))]
    ELSE [ok |-> FALSE, g1 |-> <<>>, g2 |-> " ", g3 |-> <<>>]

\* the list-marker pattern: start of line, a run of spaces, "- "
listMatch(line) ==
    LET n == LeadingSpaces(line) IN
    /\ Len(line) >= n + 2
    /\ line[n + 1] = "-"
    /\ line[n + 2] = " "

indentation(m) == Len(m.g1)

\* variant: the completed test is lost
isCompletedNever(m) == FALSE

isCompleted(m) == m.g2 = "x"

\* variant: the content is pushed as it is matched
taskContentUntrimmed(m) == m.g3

taskContent(m) == trim(m.g3)

\* variant: the indentation-0 branch is lost, only the !inList branch is left
TopLevelBranchNever(ind) == FALSE

\* if (indentation === 0)
TopLevelBranch(ind) == ind = 0

\* variant: the test of inList is lost
OrphanBranchAlways(il) == TRUE

\* else if (!inList)
OrphanBranch(il) == ~il

\* variant: unshift in place of push
PushTaskFront(ts, t) == <<t>> \o ts

\* variant: the task is pushed twice
PushTaskTwice(ts, t) == ts \o <<t, t>>

\* tasks.push(taskContent)
PushTask(ts, t) == Append(ts, t)

(***************************************************************************)
(* The documents the extractor is run on.                                  *)
(***************************************************************************)
Unchecked == <<"-", " ", "[", " ", "]", " ">>
Checked == <<"-", " ", "[", "x", "]", " ">>
Bullet == <<"-", " ">>
Indent2 == <<" ", " ">>
Indent4 == <<" ", " ", " ", " ">>

LinePool ==
    { Unchecked \o <<"a">>,                   \* "- [ ] a"
      Indent2 \o Unchecked \o <<"b">>,        \* "  - [ ] b"
      Indent4 \o Unchecked \o <<"c">>,        \* "    - [ ] c"
      Checked \o <<"d">>,                     \* "- [x] d"
      Indent2 \o Checked \o <<"e">>,          \* "  - [x] e"
      Bullet \o <<"f">>,                      \* "- f"
      Indent2 \o Bullet \o <<"g">>,           \* "  - g"
      <<>>,                                   \* ""
      Indent2,                                \* "  "
      <<"t">>,                                \* "t"
      Unchecked \o <<" ", "h", " ">>,         \* "- [ ]  h "
      <<"-", " ", "[", "X", "]", " ", "m">>,  \* "- [X] m"
      Unchecked \o <<"n", "\r">> }            \* "- [ ] n\r"

Documents == UNION { [1..n -> LinePool] : n \in 0..MaxLines }

(***************************************************************************)
(* createEisenhowerMatrixContent: the state before a call.                 *)
(***************************************************************************)
BucketNames ==
    {"urgentImportant", "notUrgentImportant", "urgentNotImportant",
     "notUrgentNotImportant", "backlog"}

NoBlock == [rendered |-> FALSE, title |-> <<>>, quadrants |-> <<>>, backlog |-> <<>>]

ExtractIdle ==
    /\ lines = <<>>
    /\ i = 1
    /\ tasks = <<>>
    /\ inList = FALSE
    /\ previousIndent = 0
    /\ origin = <<>>

StripIdle ==
    /\ stripInput = <<>>
    /\ stripOnce = <<>>
    /\ stripTwice = <<>>

HostIdle ==
    /\ vaultContent = <<>>
    /\ viewFile = "none"
    /\ hasFocus = FALSE
    /\ editorContent = <<>>
    /\ cursor = [line |-> 0, ch |-> 0]
    /\ showEisenhowerMatrix = TRUE
    /\ debouncePending = FALSE
    /\ calls = << >>
    /\ ended = "none"
    /\ commandRun = FALSE

MatrixIdle ==
    /\ matrixTasks = <<>>
    /\ title = <<>>
    /\ taskIndex = 1
    /\ urgentImportant = <<>>
    /\ notUrgentImportant = <<>>
    /\ urgentNotImportant = <<>>
    /\ notUrgentNotImportant = <<>>
    /\ backlog = <<>>
    /\ placed = [b \in BucketNames |-> <<>>]
    /\ flags = <<>>
    /\ block = NoBlock

(***************************************************************************)
(* extractTasksFromContent                                                 *)
(***************************************************************************)
InitExtract ==
    /\ pc = "scan"
    /\ lines \in Documents
    /\ i = 1
    /\ tasks = <<>>
    /\ inList = FALSE
    /\ previousIndent = 0
    /\ origin = <<>>
    /\ MatrixIdle
    /\ StripIdle
    /\ HostIdle

\* an unchecked checklist line without indentation
ScanTopLevelTask ==
    /\ pc = "scan"
    /\ i <= Len(lines)
    /\ LET m == taskMatch(lines[i]) IN
        /\ m.ok
        /\ ~isCompleted(m)
        /\ TopLevelBranch(indentation(m))
        /\ inList' = TRUE
        /\ previousIndent' = 0
        /\ tasks' = PushTask(tasks, taskContent(m))
        /\ origin' = Append(origin, i)
    /\ i' = i + 1
    /\ UNCHANGED <<pc, lines>>
    /\ UNCHANGED <<matrixVars, stripVars, hostVars>>

\* variant: an indented unchecked line is also pushed when its indentation
\* is not larger than previousIndent
ScanOrphanTaskByIndent ==
    /\ pc = "scan"
    /\ i <= Len(lines)
    /\ LET m == taskMatch(lines[i]) IN
        /\ m.ok
        /\ ~isCompleted(m)
        /\ ~TopLevelBranch(indentation(m))
        /\ OrphanBranch(inList) \/ indentation(m) <= previousIndent
        /\ tasks' = PushTask(tasks, taskContent(m))
        /\ origin' = Append(origin, i)
        /\ inList' = TRUE
        /\ previousIndent' = indentation(m)
    /\ i' = i + 1
    /\ UNCHANGED <<pc, lines>>
    /\ UNCHANGED <<matrixVars, stripVars, hostVars>>

\* an indented unchecked checklist line met outside a list
ScanOrphanTask ==
    /\ pc = "scan"
    /\ i <= Len(lines)
    /\ LET m == taskMatch(lines[i]) IN
        /\ m.ok
        /\ ~isCompleted(m)
        /\ ~TopLevelBranch(indentation(m))
        /\ OrphanBranch(inList)
        /\ tasks' = PushTask(tasks, taskContent(m))
        /\ origin' = Append(origin, i)
        /\ inList' = TRUE
        /\ previousIndent' = indentation(m)
    /\ i' = i + 1
    /\ UNCHANGED <<pc, lines>>
    /\ UNCHANGED <<matrixVars, stripVars, hostVars>>

\* a checklist line that is completed, or indented inside a list
ScanSkippedTask ==
    /\ pc = "scan"
    /\ i <= Len(lines)
    /\ LET m == taskMatch(lines[i]) IN
        /\ m.ok
        /\ \/ isCompleted(m)
           \/ /\ ~TopLevelBranch(indentation(m))
              /\ ~OrphanBranch(inList)
    /\ i' = i + 1
    /\ UNCHANGED <<pc, lines, tasks, inList, previousIndent, origin>>
    /\ UNCHANGED <<matrixVars, stripVars, hostVars>>

\* variant: a list line that is no checklist line leaves inList as it is
ScanListItemKeepsContext ==
    /\ pc = "scan"
    /\ i <= Len(lines)
    /\ ~taskMatch(lines[i]).ok
    /\ listMatch(lines[i])
    /\ i' = i + 1
    /\ UNCHANGED <<pc, lines, tasks, inList, previousIndent, origin>>
    /\ UNCHANGED <<matrixVars, stripVars, hostVars>>

\* a list line that is no checklist line
ScanListItem ==
    /\ pc = "scan"
    /\ i <= Len(lines)
    /\ ~taskMatch(lines[i]).ok
    /\ listMatch(lines[i])
    /\ inList' = TRUE
    /\ i' = i + 1
    /\ UNCHANGED <<pc, lines, tasks, previousIndent, origin>>
    /\ UNCHANGED <<matrixVars, stripVars, hostVars>>

\* a blank line or a line that is no list line
ScanOtherLine ==
    /\ pc = "scan"
    /\ i <= Len(lines)
    /\ ~taskMatch(lines[i]).ok
    /\ ~listMatch(lines[i])
    /\ trim(lines[i]) = <<>> \/ ~listMatch(lines[i])
    /\ inList' = FALSE
    /\ previousIndent' = 0
    /\ i' = i + 1
    /\ UNCHANGED <<pc, lines, tasks, origin>>
    /\ UNCHANGED <<matrixVars, stripVars, hostVars>>

\* return tasks
ReturnTasks ==
    /\ pc = "scan"
    /\ i > Len(lines)
    /\ pc' = "returned"
    /\ UNCHANGED extractVars
    /\ UNCHANGED <<matrixVars, stripVars, hostVars>>

NextExtract ==
    \/ ScanTopLevelTask
    \/ ScanOrphanTask
    \/ ScanSkippedTask
    \/ ScanListItem
    \/ ScanOtherLine
    \/ ReturnTasks

vars == <<pc, extractVars, matrixVars, stripVars, hostVars>>

Spec == InitExtract /\ [][NextExtract]_vars

(***************************************************************************)
(* extractTopLevelTasks, the extractor of the command 'Extract Top-Level   *)
(* Tasks': lines is the text of the editor of the active view, split at    *)
(* the newlines.                                                           *)
(***************************************************************************)
InitTopLevel ==
    /\ pc = "top scan"
    /\ lines \in Documents
    /\ i = 1
    /\ tasks = <<>>
    /\ inList = FALSE
    /\ previousIndent = 0
    /\ origin = <<>>
    /\ viewFile \in {"none", "note"}
    /\ editorContent = IF viewFile = "note" THEN lines ELSE <<>>
    /\ vaultContent = <<>>
    /\ hasFocus = FALSE
    /\ cursor = [line |-> 0, ch |-> 0]
    /\ showEisenhowerMatrix = TRUE
    /\ debouncePending = FALSE
    /\ calls = << >>
    /\ ended = "none"
    /\ commandRun = FALSE
    /\ MatrixIdle
    /\ StripIdle

\* there is no active Markdown view: the empty list is returned
TopNoActiveView ==
    /\ pc = "top scan"
    /\ viewFile = "none"
    /\ pc' = "top returned"
    /\ UNCHANGED extractVars
    /\ UNCHANGED <<matrixVars, stripVars, hostVars>>

\* variant: a checklist line without indentation leaves inList as it is
TopScanTopLevelTaskKeepsContext ==
    /\ pc = "top scan"
    /\ viewFile = "note"
    /\ i <= Len(lines)
    /\ LET m == taskMatch(lines[i]) IN
        /\ m.ok
        /\ indentation(m) = 0
        /\ tasks' = Append(tasks, taskContent(m))
        /\ origin' = Append(origin, i)
    /\ i' = i + 1
    /\ UNCHANGED <<pc, lines, inList, previousIndent>>
    /\ UNCHANGED <<matrixVars, stripVars, hostVars>>

\* a checklist line without indentation, checked or not
TopScanTopLevelTask ==
    /\ pc = "top scan"
    /\ viewFile = "note"
    /\ i <= Len(lines)
    /\ LET m == taskMatch(lines[i]) IN
        /\ m.ok
        /\ indentation(m) = 0
        /\ inList' = TRUE
        /\ previousIndent' = 0
        /\ tasks' = Append(tasks, taskContent(m))
        /\ origin' = Append(origin, i)
    /\ i' = i + 1
    /\ UNCHANGED <<pc, lines>>
    /\ UNCHANGED <<matrixVars, stripVars, hostVars>>

\* an indented checklist line met outside a list, checked or not
TopScanOrphanTask ==
    /\ pc = "top scan"
    /\ viewFile = "note"
    /\ i <= Len(lines)
    /\ LET m == taskMatch(lines[i]) IN
        /\ m.ok
        /\ indentation(m) # 0
        /\ ~inList
        /\ tasks' = Append(tasks, taskContent(m))
        /\ origin' = Append(origin, i)
        /\ inList' = TRUE
        /\ previousIndent' = indentation(m)
    /\ i' = i + 1
    /\ UNCHANGED <<pc, lines>>
    /\ UNCHANGED <<matrixVars, stripVars, hostVars>>

\* an indented checklist line inside a list
TopScanSkippedTask ==
    /\ pc = "top scan"
    /\ viewFile = "note"
    /\ i <= Len(lines)
    /\ LET m == taskMatch(lines[i]) IN
        /\ m.ok
        /\ indentation(m) # 0
        /\ inList
    /\ i' = i + 1
    /\ UNCHANGED <<pc, lines, tasks, inList, previousIndent, origin>>
    /\ UNCHANGED <<matrixVars, stripVars, hostVars>>

\* a list line that is no checklist line
TopScanListItem ==
    /\ pc = "top scan"
    /\ viewFile = "note"
    /\ i <= Len(lines)
    /\ ~taskMatch(lines[i]).ok
    /\ listMatch(lines[i])
    /\ inList' = TRUE
    /\ i' = i + 1
    /\ UNCHANGED <<pc, lines, tasks, previousIndent, origin>>
    /\ UNCHANGED <<matrixVars, stripVars, hostVars>>

\* a blank line or a line that is no list line
TopScanOtherLine ==
    /\ pc = "top scan"
    /\ viewFile = "note"
    /\ i <= Len(lines)
    /\ ~taskMatch(lines[i]).ok
    /\ ~listMatch(lines[i])
    /\ trim(lines[i]) = <<>> \/ ~listMatch(lines[i])
    /\ inList' = FALSE
    /\ previousIndent' = 0
    /\ i' = i + 1
    /\ UNCHANGED <<pc, lines, tasks, origin>>
    /\ UNCHANGED <<matrixVars, stripVars, hostVars>>

\* return tasks
TopReturnTasks ==
    /\ pc = "top scan"
    /\ viewFile = "note"
    /\ i > Len(lines)
    /\ pc' = "top returned"
    /\ UNCHANGED extractVars
    /\ UNCHANGED <<matrixVars, stripVars, hostVars>>

NextTopLevel ==
    \/ TopNoActiveView
    \/ TopScanTopLevelTask
    \/ TopScanOrphanTask
    \/ TopScanSkippedTask
    \/ TopScanListItem
    \/ TopScanOtherLine
    \/ TopReturnTasks

SpecTopLevel == InitTopLevel /\ [][NextTopLevel]_vars

(***************************************************************************)
(* extractTasksFromContent as a function of the lines of the content: the  *)
(* loop from line idx on, with the tasks pushed so far and the flag        *)
(* inList.  previousIndent is written by the loop and never read.          *)
(***************************************************************************)
RECURSIVE scanFrom(_, _, _, _)
scanFrom(ls, idx, ts, il) ==
    IF idx > Len(ls)
    THEN ts
    ELSE LET m == taskMatch(ls[idx]) IN
         IF m.ok
         THEN IF isCompleted(m)
              THEN scanFrom(ls, idx + 1, ts, il)
              ELSE IF TopLevelBranch(indentation(m)) \/ OrphanBranch(il)
                   THEN scanFrom(ls, idx + 1, PushTask(ts, taskContent(m)), TRUE)
                   ELSE scanFrom(ls, idx + 1, ts, il)
         ELSE IF listMatch(ls[idx])
              THEN scanFrom(ls, idx + 1, ts, TRUE)
              ELSE scanFrom(ls, idx + 1, ts, FALSE)

extractTasksFromContent(ls) == scanFrom(ls, 1, <<>>, FALSE)

(***************************************************************************)
(* extractTasksFromContent with previousIndent given, between any two      *)
(* lines, any value the loop can assign to it.                             *)
(***************************************************************************)
\* the values the loop assigns to previousIndent: 0 and the indentation of
\* a checklist line
IndentValues ==
    {0} \cup { indentation(taskMatch(l)) : l \in {k \in LinePool : taskMatch(k).ok} }

\* previousIndent is given another of its values
ChangeIndent ==
    /\ pc = "scan"
    /\ i <= Len(lines)
    /\ previousIndent' \in IndentValues \ {previousIndent}
    /\ UNCHANGED <<pc, lines, i, tasks, inList, origin>>
    /\ UNCHANGED <<matrixVars, stripVars, hostVars>>

NextIndent == NextExtract \/ ChangeIndent

SpecIndent == InitExtract /\ [][NextIndent]_vars

\* the value of inList after the lines ls, from the value il
RECURSIVE inListAfter(_, _)
inListAfter(ls, il) ==
    IF ls = <<>>
    THEN il
    ELSE LET m == taskMatch(Head(ls)) IN
         inListAfter(Tail(ls),
                     IF m.ok
                     THEN IF isCompleted(m)
                          THEN il
                          ELSE IF TopLevelBranch(indentation(m)) \/ OrphanBranch(il)
                               THEN TRUE
                               ELSE il
                     ELSE listMatch(Head(ls)))

(***************************************************************************)
(* createEisenhowerMatrixContent: tag detection and tag removal.           *)
(***************************************************************************)
UpperCase ==
    <<"A", "B", "C", "D", "E", "F", "G", "H", "I", "J", "K", "L", "M",
      "N", "O", "P", "Q", "R", "S", "T", "U", "V", "W", "X", "Y", "Z">>

LowerCase ==
    <<"a", "b", "c", "d", "e", "f", "g", "h", "i", "j", "k", "l", "m",
      "n", "o", "p", "q", "r", "s", "t", "u", "v", "w", "x", "y", "z">>

Digits == {"0", "1", "2", "3", "4", "5", "6", "7", "8", "9"}

UpperSet == {UpperCase[n] : n \in 1..Len(UpperCase)}
LowerSet == {LowerCase[n] : n \in 1..Len(LowerCase)}

LowerOf ==
    [c \in UpperSet |-> LowerCase[CHOOSE n \in 1..Len(UpperCase) : UpperCase[n] = c]]

\* the case folding of the i flag
toLowerCase(c) == IF c \in UpperSet THEN LowerOf[c] ELSE c

\* \w
WordChars == UpperSet \cup LowerSet \cup Digits \cup {"_"}

IsWordChar(c) == c \in WordChars

\* the class of the tag-removal pattern: letters, digits, "_" and "-"
IsTagChar(c) == c \in WordChars \/ c = "-"

IsWordAt(s, q) == q \in 1..Len(s) /\ IsWordChar(s[q])

\* \b between the characters q and q + 1 of s
WordBoundary(s, q) == IsWordAt(s, q) # IsWordAt(s, q + 1)

\* pattern.test(task) for the pattern: tag, then \b, with the i flag
hasTag(task, tag) ==
    \E q \in 1..(Len(task) - Len(tag) + 1) :
        /\ \A n \in 1..Len(tag) : toLowerCase(task[q + n - 1]) = tag[n]
        /\ WordBoundary(task, q + Len(tag) - 1)

UrgentTag == <<"#", "u", "r", "g", "e", "n", "t">>
ImportantTag == <<"#", "i", "m", "p", "o", "r", "t", "a", "n", "t">>
LaterTag == <<"#", "l", "a", "t", "e", "r">>

hasUrgentTag(task) == hasTag(task, UrgentTag)
hasImportantTag(task) == hasTag(task, ImportantTag)
hasLaterTag(task) == hasTag(task, LaterTag)

\* end of the run of tag characters that starts at q (q - 1 for no run)
RECURSIVE RunEnd(_, _)
RunEnd(s, q) ==
    IF q <= Len(s) /\ IsTagChar(s[q]) THEN RunEnd(s, q + 1) ELSE q - 1

\* the last position of e down to lo that is followed by a word boundary,
\* 0 when there is none: the backtracking of the greedy run
RECURSIVE LastBoundary(_, _, _)
LastBoundary(s, lo, e) ==
    IF e < lo THEN 0
    ELSE IF WordBoundary(s, e) THEN e
    ELSE LastBoundary(s, lo, e - 1)

\* where a match of the tag-removal pattern that starts at q ends, 0 when
\* there is none: "#", the longest run of one or more tag characters that
\* ends at a word boundary
TagEnd(s, q) ==
    IF s[q] # "#" THEN 0 ELSE LastBoundary(s, q + 1, RunEnd(s, q + 1))

\* variant: the g flag is lost, only the first match is removed
RECURSIVE removeFirstTagFrom(_, _)
removeFirstTagFrom(s, q) ==
    IF q > Len(s)
    THEN <<>>
    ELSE LET e == TagEnd(s, q) IN
         IF e > 0
         THEN SubSeq(s, e + 1, Len(s))
         ELSE <<s[q]>> \o removeFirstTagFrom(s, q + 1)

\* task.replace(pattern, '') with the g flag, from position q on
RECURSIVE removeTagsFrom(_, _)
removeTagsFrom(s, q) ==
    IF q > Len(s)
    THEN <<>>
    ELSE LET e == TagEnd(s, q) IN
         IF e > 0
         THEN removeTagsFrom(s, e + 1)
         ELSE <<s[q]>> \o removeTagsFrom(s, q + 1)

\* variant: the trim is lost
cleanTaskUntrimmed(task) == removeTagsFrom(task, 1)

cleanTask(task) == trim(removeTagsFrom(task, 1))

\* variant: the later test is made before the important and urgent tests
categorizeLaterFirst(u, im, l) ==
    IF u /\ im THEN {"urgentImportant"}
    ELSE IF l THEN {"notUrgentNotImportant"}
    ELSE IF im THEN {"notUrgentImportant"}
    ELSE IF u THEN {"urgentNotImportant"}
    ELSE {"backlog"}

\* variant: the first else is lost, the chain restarts after the first if
categorizeFallThrough(u, im, l) ==
    (IF u /\ im THEN {"urgentImportant"} ELSE {})
    \cup (IF im THEN {"notUrgentImportant"}
          ELSE IF u THEN {"urgentNotImportant"}
          ELSE IF l THEN {"notUrgentNotImportant"}
          ELSE {"backlog"})

\* the if / else-if chain: the buckets the task is pushed to
categorize(u, im, l) ==
    IF u /\ im THEN {"urgentImportant"}
    ELSE IF im THEN {"notUrgentImportant"}
    ELSE IF u THEN {"urgentNotImportant"}
    ELSE IF l THEN {"notUrgentNotImportant"}
    ELSE {"backlog"}

\* variant: the backlog branch pushes the task as passed in
pushedTextRaw(task, b) == IF b = "backlog" THEN task ELSE cleanTask(task)

\* the text pushed to bucket b for the task: cleanTask in every branch
pushedText(task, b) == cleanTask(task)

\* variant: unshift in place of push
pushIfFront(bucket, b, into, text) ==
    IF b \in into THEN <<text>> \o bucket ELSE bucket

\* bucket.push(text) when the task is categorized into b
pushIf(bucket, b, into, text) ==
    IF b \in into THEN Append(bucket, text) ELSE bucket

\* "- [ ] ", which the template puts before every listed task
CheckboxPrefix == <<"-", " ", "[", " ", "]", " ">>

\* variant: the emptiness test is lost
createTaskListNeverEmpty(ts, emptyMessage) ==
    [empty |-> FALSE, message |-> <<>>,
     items |-> [n \in 1..Len(ts) |-> CheckboxPrefix \o ts[n]]]

\* createTaskList(tasks, emptyMessage)
createTaskList(ts, emptyMessage) ==
    IF Len(ts) = 0
    THEN [empty |-> TRUE, message |-> emptyMessage, items |-> <<>>]
    ELSE [empty |-> FALSE, message |-> <<>>,
          items |-> [n \in 1..Len(ts) |-> CheckboxPrefix \o ts[n]]]

\* the backlog section of the template
backlogLines(ts) == [n \in 1..Len(ts) |-> CheckboxPrefix \o ts[n]]

(***************************************************************************)
(* The text of the returned content.  A text is the sequence of its lines, *)
(* what split on the newline character gives; a line is a sequence of      *)
(* characters.                                                             *)
(***************************************************************************)
\* the character U+0060, which no string of this language can hold
Backtick == "U+0060"

\* the heading line of the template, around the title
TitlePrefix == <<"#", " ">>
TitleSuffix == <<" ", "-", " ", "E", "i", "s", "e", "n", "h", "o", "w", "e", "r", " ", "M", "a", "t", "r", "i", "x">>

\* the indentation of the createTaskList lines of the template
ListIndent == <<" ", " ", " ", " ", " ", " ">>

\* the markup createTaskList puts around a message, a list and an item
EmptyOpen == <<"<", "p", " ", "c", "l", "a", "s", "s", "=", "\"", "e", "m", "p", "t", "y", "-", "m", "e", "s", "s", "a", "g", "e", "\"", ">">>
EmptyClose == <<"<", "/", "p", ">">>
ListOpen == <<"<", "u", "l", ">">>
ListClose == <<"<", "/", "u", "l", ">">>
ItemOpen == <<"<", "l", "i", ">">>
ItemClose == <<"<", "/", "l", "i", ">">>

\* the empty messages of the four createTaskList calls
NoDoFirstMessage == <<"N", "o", " ", "u", "r", "g", "e", "n", "t", " ", "a", "n", "d", " ", "i", "m", "p", "o", "r", "t", "a", "n", "t", " ", "t", "a", "s", "k", "s">>
NoScheduleMessage == <<"N", "o", " ", "i", "m", "p", "o", "r", "t", "a", "n", "t", " ", "t", "a", "s", "k", "s", " ", "t", "o", " ", "s", "c", "h", "e", "d", "u", "l", "e">>
NoDelegateMessage == <<"N", "o", " ", "t", "a", "s", "k", "s", " ", "t", "o", " ", "d", "e", "l", "e", "g", "a", "t", "e">>
NoEliminateMessage == <<"N", "o", " ", "t", "a", "s", "k", "s", " ", "t", "o", " ", "e", "l", "i", "m", "i", "n", "a", "t", "e">>

\* the template from the heading line to the Do First list
TemplateToDoFirst ==
    << <<>>,
       <<Backtick, Backtick, Backtick, "e", "i", "s", "e", "n", "h", "o", "w", "e", "r", "-", "m", "a", "t", "r", "i", "x">>,
       <<"#", "#", " ", "E", "i", "s", "e", "n", "h", "o", "w", "e", "r", " ", "M", "a", "t", "r", "i", "x">>,
       <<Backtick, Backtick, Backtick>>,
       <<>>,
       <<"<", "d", "i", "v", " ", "c", "l", "a", "s", "s", "=", "\"", "e", "m", "a", "t", "r", "i", "x", "-", "c", "o", "n", "t", "a", "i", "n", "e", "r", "\"", ">">>,
       <<" ", " ", "<", "d", "i", "v", " ", "c", "l", "a", "s", "s", "=", "\"", "e", "m", "a", "t", "r", "i", "x", "-", "h", "e", "a", "d", "e", "r", "\"", ">">>,
       <<" ", " ", " ", " ", "<", "d", "i", "v", " ", "c", "l", "a", "s", "s", "=", "\"", "e", "m", "a", "t", "r", "i", "x", "-", "h", "e", "a", "d", "e", "r", "-", "e", "m", "p", "t", "y", "\"", ">", "<", "/", "d", "i", "v", ">">>,
       <<" ", " ", " ", " ", "<", "d", "i", "v", " ", "c", "l", "a", "s", "s", "=", "\"", "e", "m", "a", "t", "r", "i", "x", "-", "h", "e", "a", "d", "e", "r", "-", "u", "r", "g", "e", "n", "t", "\"", ">", "U", "r", "g", "e", "n", "t", "<", "/", "d", "i", "v", ">">>,
       <<" ", " ", " ", " ", "<", "d", "i", "v", " ", "c", "l", "a", "s", "s", "=", "\"", "e", "m", "a", "t", "r", "i", "x", "-", "h", "e", "a", "d", "e", "r", "-", "n", "o", "t", "-", "u", "r", "g", "e", "n", "t", "\"", ">", "N", "o", "t", " ", "U", "r", "g", "e", "n", "t", "<", "/", "d", "i", "v", ">">>,
       <<" ", " ", "<", "/", "d", "i", "v", ">">>,
       <<" ", " ">>,
       <<" ", " ", "<", "d", "i", "v", " ", "c", "l", "a", "s", "s", "=", "\"", "e", "m", "a", "t", "r", "i", "x", "-", "r", "o", "w", "\"", ">">>,
       <<" ", " ", " ", " ", "<", "d", "i", "v", " ", "c", "l", "a", "s", "s", "=", "\"", "e", "m", "a", "t", "r", "i", "x", "-", "r", "o", "w", "-", "h", "e", "a", "d", "e", "r", "\"", ">", "I", "m", "p", "o", "r", "t", "a", "n", "t", "<", "/", "d", "i", "v", ">">>,
       <<" ", " ", " ", " ", "<", "d", "i", "v", " ", "c", "l", "a", "s", "s", "=", "\"", "e", "m", "a", "t", "r", "i", "x", "-", "q", "u", "a", "d", "r", "a", "n", "t", " ", "u", "r", "g", "e", "n", "t", "-", "i", "m", "p", "o", "r", "t", "a", "n", "t", "\"", ">">>,
       <<" ", " ", " ", " ", " ", " ", "<", "h", "3", ">", "D", "o", " ", "F", "i", "r", "s", "t", "<", "/", "h", "3", ">">> >>

\* the template from the Do First list to the Schedule list
TemplateToSchedule ==
    << <<" ", " ", " ", " ", "<", "/", "d", "i", "v", ">">>,
       <<" ", " ", " ", " ", "<", "d", "i", "v", " ", "c", "l", "a", "s", "s", "=", "\"", "e", "m", "a", "t", "r", "i", "x", "-", "q", "u", "a", "d", "r", "a", "n", "t", " ", "n", "o", "t", "-", "u", "r", "g", "e", "n", "t", "-", "i", "m", "p", "o", "r", "t", "a", "n", "t", "\"", ">">>,
       <<" ", " ", " ", " ", " ", " ", "<", "h", "3", ">", "S", "c", "h", "e", "d", "u", "l", "e", "<", "/", "h", "3", ">">> >>

\* the template from the Schedule list to the Delegate list
TemplateToDelegate ==
    << <<" ", " ", " ", " ", "<", "/", "d", "i", "v", ">">>,
       <<" ", " ", "<", "/", "d", "i", "v", ">">>,
       <<" ", " ">>,
       <<" ", " ", "<", "d", "i", "v", " ", "c", "l", "a", "s", "s", "=", "\"", "e", "m", "a", "t", "r", "i", "x", "-", "r", "o", "w", "\"", ">">>,
       <<" ", " ", " ", " ", "<", "d", "i", "v", " ", "c", "l", "a", "s", "s", "=", "\"", "e", "m", "a", "t", "r", "i", "x", "-", "r", "o", "w", "-", "h", "e", "a", "d", "e", "r", "\"", ">", "N", "o", "t", " ", "I", "m", "p", "o", "r", "t", "a", "n", "t", "<", "/", "d", "i", "v", ">">>,
       <<" ", " ", " ", " ", "<", "d", "i", "v", " ", "c", "l", "a", "s", "s", "=", "\"", "e", "m", "a", "t", "r", "i", "x", "-", "q", "u", "a", "d", "r", "a", "n", "t", " ", "u", "r", "g", "e", "n", "t", "-", "n", "o", "t", "-", "i", "m", "p", "o", "r", "t", "a", "n", "t", "\"", ">">>,
       <<" ", " ", " ", " ", " ", " ", "<", "h", "3", ">", "D", "e", "l", "e", "g", "a", "t", "e", "<", "/", "h", "3", ">">> >>

\* the template from the Delegate list to the Eliminate list
TemplateToEliminate ==
    << <<" ", " ", " ", " ", "<", "/", "d", "i", "v", ">">>,
       <<" ", " ", " ", " ", "<", "d", "i", "v", " ", "c", "l", "a", "s", "s", "=", "\"", "e", "m", "a", "t", "r", "i", "x", "-", "q", "u", "a", "d", "r", "a", "n", "t", " ", "n", "o", "t", "-", "u", "r", "g", "e", "n", "t", "-", "n", "o", "t", "-", "i", "m", "p", "o", "r", "t", "a", "n", "t", "\"", ">">>,
       <<" ", " ", " ", " ", " ", " ", "<", "h", "3", ">", "E", "l", "i", "m", "i", "n", "a", "t", "e", "<", "/", "h", "3", ">">> >>

\* the template from the Eliminate list to the backlog lines
TemplateToBacklog ==
    << <<" ", " ", " ", " ", "<", "/", "d", "i", "v", ">">>,
       <<" ", " ", "<", "/", "d", "i", "v", ">">>,
       <<"<", "/", "d", "i", "v", ">">>,
       <<>>,
       <<"#", "#", " ", "B", "a", "c", "k", "l", "o", "g">>,
       <<>> >>

\* the template after the backlog lines
TemplateInstructions ==
    << <<>>,
       <<"<", "d", "i", "v", " ", "c", "l", "a", "s", "s", "=", "\"", "e", "m", "a", "t", "r", "i", "x", "-", "i", "n", "s", "t", "r", "u", "c", "t", "i", "o", "n", "s", "\"", ">">>,
       <<" ", " ", "<", "h", "3", ">", "T", "a", "s", "k", " ", "O", "r", "g", "a", "n", "i", "z", "a", "t", "i", "o", "n", "<", "/", "h", "3", ">">>,
       <<" ", " ", "<", "p", ">", "U", "s", "e", " ", "t", "h", "e", " ", "f", "o", "l", "l", "o", "w", "i", "n", "g", " ", "t", "a", "g", "s", " ", "t", "o", " ", "o", "r", "g", "a", "n", "i", "z", "e", " ", "t", "a", "s", "k", "s", " ", "i", "n", " ", "t", "h", "e", " ", "m", "a", "t", "r", "i", "x", ":", "<", "/", "p", ">">>,
       <<" ", " ", "<", "u", "l", ">">>,
       <<" ", " ", " ", " ", "<", "l", "i", ">", "<", "s", "t", "r", "o", "n", "g", ">", "#", "u", "r", "g", "e", "n", "t", " ", "#", "i", "m", "p", "o", "r", "t", "a", "n", "t", "<", "/", "s", "t", "r", "o", "n", "g", ">", " ", "-", " ", "D", "o", " ", "F", "i", "r", "s", "t", " ", "q", "u", "a", "d", "r", "a", "n", "t", "<", "/", "l", "i", ">">>,
       <<" ", " ", " ", " ", "<", "l", "i", ">", "<", "s", "t", "r", "o", "n", "g", ">", "#", "i", "m", "p", "o", "r", "t", "a", "n", "t", "<", "/", "s", "t", "r", "o", "n", "g", ">", " ", "-", " ", "S", "c", "h", "e", "d", "u", "l", "e", " ", "q", "u", "a", "d", "r", "a", "n", "t", "<", "/", "l", "i", ">">>,
       <<" ", " ", " ", " ", "<", "l", "i", ">", "<", "s", "t", "r", "o", "n", "g", ">", "#", "u", "r", "g", "e", "n", "t", "<", "/", "s", "t", "r", "o", "n", "g", ">", " ", "-", " ", "D", "e", "l", "e", "g", "a", "t", "e", " ", "q", "u", "a", "d", "r", "a", "n", "t", "<", "/", "l", "i", ">">>,
       <<" ", " ", " ", " ", "<", "l", "i", ">", "<", "s", "t", "r", "o", "n", "g", ">", "#", "l", "a", "t", "e", "r", "<", "/", "s", "t", "r", "o", "n", "g", ">", " ", "-", " ", "E", "l", "i", "m", "i", "n", "a", "t", "e", " ", "q", "u", "a", "d", "r", "a", "n", "t", "<", "/", "l", "i", ">">>,
       <<" ", " ", " ", " ", "<", "l", "i", ">", "N", "o", " ", "t", "a", "g", "s", " ", "-", " ", "T", "a", "s", "k", "s", " ", "a", "p", "p", "e", "a", "r", " ", "i", "n", " ", "B", "a", "c", "k", "l", "o", "g", "<", "/", "l", "i", ">">>,
       <<" ", " ", "<", "/", "u", "l", ">">>,
       <<"<", "/", "d", "i", "v", ">">>,
       <<>>,
       <<"<", "!", "-", "-", " ", "#", "e", "m", "a", "t", "r", "i", "x", " ", "-", "-", ">">> >>

\* tasks.map(...).join of createTaskList, with the empty separator
RECURSIVE joinItems(_)
joinItems(items) ==
    IF items = <<>>
    THEN <<>>
    ELSE ItemOpen \o Head(items) \o ItemClose \o joinItems(Tail(items))

\* the string createTaskList returns
createTaskListText(list) ==
    IF list.empty
    THEN EmptyOpen \o list.message \o EmptyClose
    ELSE ListOpen \o joinItems(list.items) \o ListClose

\* backlog.map(...).join of the template: no task gives one empty line
backlogText(ls) == IF ls = <<>> THEN << <<>> >> ELSE ls

\* the lines of the template literal, the interpolations filled in
contentLines(blk) ==
    << TitlePrefix \o blk.title \o TitleSuffix >>
      \o TemplateToDoFirst
      \o << ListIndent \o createTaskListText(blk.quadrants[1].list) >>
      \o TemplateToSchedule
      \o << ListIndent \o createTaskListText(blk.quadrants[2].list) >>
      \o TemplateToDelegate
      \o << ListIndent \o createTaskListText(blk.quadrants[3].list) >>
      \o TemplateToEliminate
      \o << ListIndent \o createTaskListText(blk.quadrants[4].list) >>
      \o TemplateToBacklog
      \o backlogText(blk.backlog)
      \o TemplateInstructions

\* the string needle, which is not empty, starts at position p of a line
occursAt(line, needle, p) ==
    /\ line[p] = needle[1]
    /\ \A k \in 2..Len(needle) : line[p + k - 1] = needle[k]

\* the positions of a line at which the string needle starts
MatchesIn(line, needle) ==
    { p \in 1..(Len(line) - Len(needle) + 1) : occursAt(line, needle, p) }

\* content.includes(needle), for a needle without a newline
includes(ls, needle) ==
    \E n \in 1..Len(ls) :
        \E p \in 1..(Len(ls[n]) - Len(needle) + 1) : occursAt(ls[n], needle, p)

\* the two strings processFile and the file-open handler look for
FenceMarker ==
    <<Backtick, Backtick, Backtick, "e", "i", "s", "e", "n", "h", "o", "w", "e", "r", "-",
      "m", "a", "t", "r", "i", "x">>
ContainerMarker ==
    <<"<", "d", "i", "v", " ", "c", "l", "a", "s", "s", "=", "\"", "e", "m", "a",
      "t", "r", "i", "x", "-", "c", "o", "n", "t", "a", "i", "n", "e", "r", "\"", ">">>

(***************************************************************************)
(* The task lists the classifier is run on.                                *)
(***************************************************************************)
TaskPool ==
    { <<"A", " ">> \o UrgentTag \o <<" ">> \o ImportantTag, \* "A #urgent #important"
      <<"B", " ">> \o ImportantTag,                          \* "B #important"
      <<"C", " ">> \o UrgentTag,                             \* "C #urgent"
      <<"D", " ">> \o LaterTag,                              \* "D #later"
      <<"E">>,                                               \* "E"
      <<"E", " ", "#", "s", "o", "m", "e", "d", "a", "y">>,  \* "E #someday"
      <<"F", " ", "#", "U", "R", "G", "E", "N", "T">>,       \* "F #URGENT"
      <<"G", " ">> \o UrgentTag \o <<"l", "y">>,             \* "G #urgently"
      <<"H", " ">> \o UrgentTag \o <<"-", "c", "a", "r", "e">>, \* "H #urgent-care"
      <<"I", " ">> \o LaterTag \o <<" ">> \o UrgentTag,      \* "I #later #urgent"
      UrgentTag \o <<" ", "x", " ">> \o LaterTag,            \* "#urgent x #later"
      <<"J", " ">> \o ImportantTag \o <<" ">> \o LaterTag,   \* "J #important #later"
      <<"L", " ">> \o UrgentTag \o <<"_", "x">>,             \* "L #urgent_x"
      <<"M", " ">> \o LaterTag \o <<" ", "N">> }             \* "M #later N"

TaskLists == UNION { [1..n -> TaskPool] : n \in 0..MaxTasks }

Titles == { <<"T">> }

(***************************************************************************)
(* createEisenhowerMatrixContent                                           *)
(***************************************************************************)
InitMatrix ==
    /\ pc = "categorize"
    /\ matrixTasks \in TaskLists
    /\ title \in Titles
    /\ taskIndex = 1
    /\ urgentImportant = <<>>
    /\ notUrgentImportant = <<>>
    /\ urgentNotImportant = <<>>
    /\ notUrgentNotImportant = <<>>
    /\ backlog = <<>>
    /\ placed = [b \in BucketNames |-> <<>>]
    /\ flags = <<>>
    /\ block = NoBlock
    /\ lines = <<>>
    /\ i = 1
    /\ tasks = <<>>
    /\ inList = FALSE
    /\ previousIndent = 0
    /\ origin = <<>>
    /\ StripIdle
    /\ HostIdle

\* the interpolations of the template literal
templateOf(ttl, ui, nui, uni, nunn, bl) ==
    [rendered |-> TRUE,
     title |-> ttl,
     quadrants |->
        <<[label |-> "Do First", list |-> createTaskList(ui, NoDoFirstMessage)],
          [label |-> "Schedule", list |-> createTaskList(nui, NoScheduleMessage)],
          [label |-> "Delegate", list |-> createTaskList(uni, NoDelegateMessage)],
          [label |-> "Eliminate", list |-> createTaskList(nunn, NoEliminateMessage)]>>,
     backlog |-> backlogLines(bl)]

\* one iteration of tasks.forEach
CategorizeTask ==
    /\ pc = "categorize"
    /\ taskIndex <= Len(matrixTasks)
    /\ LET task == matrixTasks[taskIndex]
           u == hasUrgentTag(task)
           im == hasImportantTag(task)
           l == hasLaterTag(task)
           into == categorize(u, im, l)
       IN
        /\ urgentImportant' =
             pushIf(urgentImportant, "urgentImportant", into,
                    pushedText(task, "urgentImportant"))
        /\ notUrgentImportant' =
             pushIf(notUrgentImportant, "notUrgentImportant", into,
                    pushedText(task, "notUrgentImportant"))
        /\ urgentNotImportant' =
             pushIf(urgentNotImportant, "urgentNotImportant", into,
                    pushedText(task, "urgentNotImportant"))
        /\ notUrgentNotImportant' =
             pushIf(notUrgentNotImportant, "notUrgentNotImportant", into,
                    pushedText(task, "notUrgentNotImportant"))
        /\ backlog' = pushIf(backlog, "backlog", into, pushedText(task, "backlog"))
        /\ placed' = [b \in BucketNames |->
                        IF b \in into THEN Append(placed[b], taskIndex) ELSE placed[b]]
        /\ flags' = Append(flags, [urgent |-> u, important |-> im, later |-> l])
    /\ taskIndex' = taskIndex + 1
    /\ UNCHANGED <<pc, matrixTasks, title, block>>
    /\ UNCHANGED <<extractVars, stripVars, hostVars>>

\* the template literal that is returned
ReturnContent ==
    /\ pc = "categorize"
    /\ taskIndex > Len(matrixTasks)
    /\ pc' = "rendered"
    /\ block' = templateOf(title, urgentImportant, notUrgentImportant,
                           urgentNotImportant, notUrgentNotImportant, backlog)
    /\ UNCHANGED <<matrixTasks, title, taskIndex, urgentImportant, notUrgentImportant,
                   urgentNotImportant, notUrgentNotImportant, backlog, placed, flags>>
    /\ UNCHANGED <<extractVars, stripVars, hostVars>>

NextMatrix ==
    \/ CategorizeTask
    \/ ReturnContent

SpecMatrix == InitMatrix /\ [][NextMatrix]_vars

(***************************************************************************)
(* createEisenhowerMatrixContent as a function: tasks.forEach from task n  *)
(* on, bs the five buckets, and the text of the template literal.          *)
(***************************************************************************)
RECURSIVE forEachTask(_, _, _)
forEachTask(ts, n, bs) ==
    IF n > Len(ts)
    THEN bs
    ELSE LET task == ts[n]
             into == categorize(hasUrgentTag(task), hasImportantTag(task),
                                hasLaterTag(task))
         IN forEachTask(ts, n + 1,
                        [b \in BucketNames |->
                            pushIf(bs[b], b, into, pushedText(task, b))])

createEisenhowerMatrixContent(ts, ttl) ==
    LET bs == forEachTask(ts, 1, [b \in BucketNames |-> <<>>]) IN
    contentLines(templateOf(ttl, bs["urgentImportant"], bs["notUrgentImportant"],
                            bs["urgentNotImportant"], bs["notUrgentNotImportant"],
                            bs["backlog"]))

(***************************************************************************)
(* createEisenhowerMatrixContent on titles and tasks that hold the text of *)
(* the two markers.                                                        *)
(***************************************************************************)
MarkerTaskPool ==
    { <<"A", " ">> \o UrgentTag,                  \* "A #urgent"
      <<"E">>,                                     \* "E"
      FenceMarker,                                 \* the fence line as a task
      ContainerMarker,                             \* the wrapper tag as a task
      ContainerMarker \o <<" ">> \o UrgentTag }    \* the wrapper tag, urgent

MarkerTaskLists == UNION { [1..n -> MarkerTaskPool] : n \in 0..MaxTasks }

MarkerTitles == { <<"T">>, FenceMarker, ContainerMarker }

InitMarkers ==
    /\ pc = "categorize"
    /\ matrixTasks \in MarkerTaskLists
    /\ title \in MarkerTitles
    /\ taskIndex = 1
    /\ urgentImportant = <<>>
    /\ notUrgentImportant = <<>>
    /\ urgentNotImportant = <<>>
    /\ notUrgentNotImportant = <<>>
    /\ backlog = <<>>
    /\ placed = [b \in BucketNames |-> <<>>]
    /\ flags = <<>>
    /\ block = NoBlock
    /\ ExtractIdle
    /\ StripIdle
    /\ HostIdle

SpecMarkers == InitMarkers /\ [][NextMatrix]_vars

\* DEFAULT_SETTINGS.placeholderText, a text of one line
placeholderText ==
    << <<"T", "h", "i", "s", " ", "n", "o", "t", "e", " ", "h", "a", "s",
         " ", "b", "e", "e", "n", " ", "p", "r", "o", "c", "e", "s", "s",
         "e", "d", " ", "b", "y", " ", "E", "M", "a", "t", "r", "i", "x",
         ".">> >>

\* a tagged note with an urgent task
NoteUrgent ==
    << <<"#", "e", "m", "a", "t", "r", "i", "x">>,
       <<"P", "l", "a", "n", " ", "f", "o", "r", " ", "t", "h", "e", " ",
         "w", "e", "e", "k", ".">>,
       <<>>,
       <<"-", " ", "[", " ", "]", " ", "A", " ", "#", "u", "r", "g", "e",
         "n", "t">>,
       <<"-", " ", "[", " ", "]", " ", "E">> >>

\* a tagged note of fewer than 50 characters
NoteShort ==
    << <<"#", "e", "m", "a", "t", "r", "i", "x">>,
       <<"-", " ", "[", " ", "]", " ", "E">> >>

\* a tagged note with a completed task
NoteChecked ==
    << <<"#", "e", "m", "a", "t", "r", "i", "x">>,
       <<"P", "l", "a", "n", " ", "f", "o", "r", " ", "t", "h", "e", " ",
         "w", "e", "e", "k", ".">>,
       <<>>,
       <<"-", " ", "[", " ", "]", " ", "B", " ", "#", "i", "m", "p", "o",
         "r", "t", "a", "n", "t">>,
       <<"-", " ", "[", "x", "]", " ", "D">> >>

\* a note without the tag
NoteUntagged ==
    << <<"P", "l", "a", "n", " ", "f", "o", "r", " ", "t", "h", "e", " ",
         "w", "e", "e", "k", ",", " ", "n", "o", " ", "t", "a", "g", " ",
         "o", "n", " ", "t", "h", "i", "s", " ", "n", "o", "t", "e", ".">>,
       <<"-", " ", "[", " ", "]", " ", "E">> >>

(***************************************************************************)
(* processFile: the tests it makes on the content and on the editor.       *)
(***************************************************************************)
\* the number of places of a text at which the string needle starts
Occurrences(ls, needle) ==
    Cardinality(UNION { { <<n, p>> : p \in MatchesIn(ls[n], needle) } :
                        n \in 1..Len(ls) })

\* content.length: the characters of the lines and the newlines between them
RECURSIVE charCount(_)
charCount(ls) == IF ls = <<>> THEN 0 ELSE Len(Head(ls)) + charCount(Tail(ls))

length(ls) == charCount(ls) + Len(ls) - 1

EmatrixTag == <<"#", "e", "m", "a", "t", "r", "i", "x">>
UncheckedBox == <<"-", " ", "[", " ", "]">>
CheckedBox == <<"-", " ", "[", "x", "]">>

\* content.length < 50
ShortFileLength == 50

\* variant: a content of fifty characters is short as well
isTooShortInclusive(content) ==
    length(content) <= ShortFileLength /\ includes(content, UncheckedBox)

isTooShort(content) ==
    length(content) < ShortFileLength /\ includes(content, UncheckedBox)

isAlreadyProcessed(content) ==
    includes(content, FenceMarker) /\ includes(content, ContainerMarker)

containsUnprocessedTasks(content) ==
    includes(content, UncheckedBox) \/ includes(content, CheckedBox)

\* countTasks of isAddingTasks: the matches of "- [", a blank or an x, "]"
countTasks(content) ==
    Occurrences(content, UncheckedBox) + Occurrences(content, CheckedBox)

isAddingTasks(currentContent, replacementContent) ==
    countTasks(currentContent) > countTasks(replacementContent)

IsLetter(c) == c \in UpperSet \cup LowerSet

\* isTypingTag(lineText, cursorPosition)
isTypingTag(lineText, cursorPosition) ==
    LET n == IF cursorPosition < Len(lineText) THEN cursorPosition ELSE Len(lineText)
        textBeforeCursor == SubSeq(lineText, 1, n)
        hashes == { p \in 1..n : textBeforeCursor[p] = "#" }
    IN
    IF hashes = {}
    THEN FALSE
    ELSE LET last == CHOOSE p \in hashes : \A q \in hashes : q <= p IN
         IF last = cursorPosition
         THEN FALSE
         ELSE \A k \in (last + 1)..n : IsLetter(textBeforeCursor[k])

\* the number of letters that follow position p of a line
RECURSIVE letterRun(_, _)
letterRun(line, p) ==
    IF p + 1 <= Len(line) /\ IsLetter(line[p + 1])
    THEN 1 + letterRun(line, p + 1)
    ELSE 0

\* the pattern of isEditingTagsNearby matches at p: '#', one to six letters,
\* and no word character after them
shortTagAt(line, p) ==
    /\ line[p] = "#"
    /\ LET k == letterRun(line, p) IN
        /\ k >= 1
        /\ k <= 6
        /\ p + k = Len(line) \/ ~IsWordChar(line[p + k + 1])

startsWith(s, prefix) ==
    /\ Len(s) >= Len(prefix)
    /\ SubSeq(s, 1, Len(prefix)) = prefix

\* match.startsWith of one of the four prefixes
hasCommonPrefix(line, p) ==
    LET rest == SubSeq(line, p, Len(line)) IN
    \/ startsWith(rest, <<"#", "u", "r">>)
    \/ startsWith(rest, <<"#", "i", "m">>)
    \/ startsWith(rest, <<"#", "l", "a">>)
    \/ startsWith(rest, <<"#", "e", "m">>)

\* isEditingTagsNearby(editor, cursorPos); lines and cursor count from 0
isEditingTagsNearby(content, cursorPos) ==
    LET startLine == IF cursorPos.line - 2 > 0 THEN cursorPos.line - 2 ELSE 0
        endLine == IF cursorPos.line + 2 < Len(content) - 1
                   THEN cursorPos.line + 2 ELSE Len(content) - 1
    IN
    \E n \in startLine..endLine :
        LET lineText == content[n + 1] IN
        /\ startsWith(trim(lineText), <<"-", " ", "[">>)
        /\ \E p \in 1..Len(lineText) :
              shortTagAt(lineText, p) /\ hasCommonPrefix(lineText, p)

\* file.basename of the note
Basename == <<"T">>

\* variant: the setting is not looked at
replacementContentAlwaysMatrix(setting, ts) ==
    createEisenhowerMatrixContent(ts, Basename)

\* replacementContent of processFile
replacementContent(setting, ts) ==
    IF setting
    THEN createEisenhowerMatrixContent(ts, Basename)
    ELSE placeholderText

\* variant: the text is added to the content
setValueAppend(old, text) == old \o text

\* editor.setValue(text) and vault.modify(file, text): the content after it
setValue(old, text) == text
modify(old, text) == text

(***************************************************************************)
(* The notes processFile is run on, and what the user types.               *)
(***************************************************************************)
\* a note that is the content returned for the tasks "A #urgent" and "E"
NoteRendered ==
    createEisenhowerMatrixContent(
        << <<"A", " ">> \o UrgentTag, <<"E">> >>, Basename)

Notes == {NoteUrgent, NoteShort, NoteChecked, NoteUntagged}

\* a line of k letters
RECURSIVE filler(_)
filler(k) == IF k <= 0 THEN <<>> ELSE <<"z">> \o filler(k - 1)

\* a tagged note with one task and a line of letters that gives the note a
\* content.length of n
noteOfLength(n) ==
    LET head == <<EmatrixTag, Unchecked \o <<"E">> >> IN
    Append(head, filler(n - length(head) - 1))

\* the notes whose length is at most two from the fifty of the short-file test
GuardNotes ==
    { noteOfLength(n) : n \in (ShortFileLength - 2)..(ShortFileLength + 1) }

\* a rendered note without checkbox: the block with no task in any section
NoteProcessed == createEisenhowerMatrixContent(<<>>, Basename)

NoCursor == [line |-> 0, ch |-> 0]

NewTaskLine == Unchecked \o <<"F">>

\* the user adds a task at the end of the note
addTask(content) ==
    [content |-> Append(content, NewTaskLine),
     cursor |-> [line |-> Len(content), ch |-> Len(NewTaskLine)]]

\* the user adds the task once
canAddTask(content) == ~includes(content, NewTaskLine)

(***************************************************************************)
(* processFile after its awaited read, in two parts.  contentOutcome is    *)
(* the part that looks at the content read only: a return, or "replace"    *)
(* with the replacement text.                                              *)
(***************************************************************************)
\* variant: an empty task list is not tested
contentOutcomeWithoutEmptyTest(content, setting) ==
    IF ~includes(content, EmatrixTag)
    THEN [outcome |-> "no tag", text |-> <<>>]
    ELSE IF isTooShort(content)
    THEN [outcome |-> "too short", text |-> <<>>]
    ELSE IF isAlreadyProcessed(content) /\ ~containsUnprocessedTasks(content)
    THEN [outcome |-> "already processed", text |-> <<>>]
    ELSE [outcome |-> "replace",
          text |-> replacementContent(setting, extractTasksFromContent(content))]

contentOutcome(content, setting) ==
    IF ~includes(content, EmatrixTag)
    THEN [outcome |-> "no tag", text |-> <<>>]
    ELSE IF isTooShort(content)
    THEN [outcome |-> "too short", text |-> <<>>]
    ELSE IF isAlreadyProcessed(content) /\ ~containsUnprocessedTasks(content)
    THEN [outcome |-> "already processed", text |-> <<>>]
    ELSE LET ts == extractTasksFromContent(content) IN
         IF Len(ts) = 0
         THEN [outcome |-> "no tasks", text |-> <<>>]
         ELSE [outcome |-> "replace", text |-> replacementContent(setting, ts)]

\* what the 'file-open' handler, the write to an open file and the user
\* look at in a content
contentFacts(content) ==
    [hasTag |-> includes(content, EmatrixTag),
     hasFence |-> includes(content, FenceMarker),
     hasContainer |-> includes(content, ContainerMarker),
     countTasks |-> countTasks(content),
     canAddTask |-> canAddTask(content)]

(***************************************************************************)
(* The contents the note can get: the notes, with the task the user adds,  *)
(* and the replacement texts.  The functions of a content are tabulated    *)
(* for them once; for any other content they are computed.                 *)
(***************************************************************************)
Grow(S) ==
    S \cup { addTask(c).content : c \in { d \in S : canAddTask(d) } }
      \cup { contentOutcome(c, setting).text :
                 c \in { d \in S : \E setting \in BOOLEAN :
                                      contentOutcome(d, setting).outcome = "replace" },
                 setting \in BOOLEAN }

ContentPool == Grow(Grow(Grow(Grow(Notes \cup GuardNotes \cup {NoteProcessed}))))

contentOutcomeTable ==
    [c \in ContentPool, setting \in BOOLEAN |-> contentOutcome(c, setting)]

contentFactsTable == [c \in ContentPool |-> contentFacts(c)]

contentOutcomeOf(content, setting) ==
    IF content \in ContentPool
    THEN contentOutcomeTable[content, setting]
    ELSE contentOutcome(content, setting)

contentFactsOf(content) ==
    IF content \in ContentPool
    THEN contentFactsTable[content]
    ELSE contentFacts(content)

(***************************************************************************)
(* The second part: the write, given whether the view taken at the start   *)
(* now shows the note, and the editor.  outcome names the return or the    *)
(* write.                                                                  *)
(***************************************************************************)
afterRead(content, viewShowsNote, current, cursorPos, focus, setting) ==
    LET c == contentOutcomeOf(content, setting) IN
    IF c.outcome # "replace"
    THEN c
    ELSE IF viewShowsNote
         THEN IF /\ contentFactsOf(current).hasTag
                 /\ ~isTypingTag(current[cursorPos.line + 1], cursorPos.ch)
                 /\ ~isEditingTagsNearby(current, cursorPos)
                 /\ ~focus
              THEN IF ~(contentFactsOf(current).countTasks
                          > contentFactsOf(c.text).countTasks)
                   THEN [outcome |-> "setValue", text |-> c.text]
                   ELSE [outcome |-> "adding tasks", text |-> <<>>]
              ELSE [outcome |-> "editing", text |-> <<>>]
         ELSE [outcome |-> "modify", text |-> c.text]

(***************************************************************************)
(* onload and processFile: the note in the vault, the active Markdown      *)
(* view, the events and the calls of processFile in flight.  calls is a    *)
(* bag: the number of calls in flight for each state a call can be in.     *)
(***************************************************************************)
InitHost ==
    /\ pc = "host"
    /\ vaultContent \in Notes
    /\ showEisenhowerMatrix \in BOOLEAN
    /\ showEisenhowerMatrix \/ vaultContent = NoteUrgent
    /\ viewFile = "none"
    /\ hasFocus = FALSE
    /\ editorContent = <<>>
    /\ cursor = NoCursor
    /\ debouncePending = FALSE
    /\ calls = EmptyBag
    /\ ended = "none"
    /\ commandRun = FALSE
    /\ ExtractIdle
    /\ MatrixIdle
    /\ StripIdle

inFlight == BagCardinality(calls)

add(bag, call) == bag (+) SetToBag({call})
remove(bag, call) == bag (-) SetToBag({call})

\* processFile up to its awaited read: it returns when the note is being
\* edited, and else keeps the active view and starts to read
isActivelyEditing == viewFile = "note" /\ hasFocus

reading == [activeView |-> viewFile = "note", issued |-> vaultContent]

\* variant: the 'file-open' handler tests the tag only
fileOpenGuardTagOnly(content) == contentFactsOf(content).hasTag

\* the tests of the 'file-open' handler on the content it read: the tag,
\* and neither the fence nor the container of a matrix
fileOpenGuard(content) ==
    /\ contentFactsOf(content).hasTag
    /\ ~contentFactsOf(content).hasFence
    /\ ~contentFactsOf(content).hasContainer

\* the user opens the note: it is shown in the active view and 'file-open'
\* fires; the handler reads the file and calls processFile for a tagged
\* content without a marker
OpenNote ==
    /\ pc = "host"
    /\ commandRun' = FALSE
    /\ ended' = "none"
    /\ viewFile = "none"
    /\ inFlight < MaxCalls
    /\ viewFile' = "note"
    /\ editorContent' = vaultContent
    /\ cursor' = NoCursor
    /\ hasFocus' \in BOOLEAN
    /\ calls' =
         IF fileOpenGuard(vaultContent) /\ ~hasFocus'
         THEN add(calls, [activeView |-> TRUE, issued |-> vaultContent])
         ELSE calls
    /\ UNCHANGED <<vaultContent, showEisenhowerMatrix, debouncePending>>
    /\ UNCHANGED <<pc, extractVars, matrixVars, stripVars>>

\* the user leaves the note, its text saved
LeaveNote ==
    /\ pc = "host"
    /\ commandRun' = FALSE
    /\ ended' = "none"
    /\ viewFile = "note"
    /\ editorContent = vaultContent
    /\ viewFile' = "none"
    /\ editorContent' = <<>>
    /\ cursor' = NoCursor
    /\ hasFocus' = FALSE
    /\ UNCHANGED <<vaultContent, showEisenhowerMatrix, debouncePending, calls>>
    /\ UNCHANGED <<pc, extractVars, matrixVars, stripVars>>

\* the user puts the focus into the editor
FocusEditor ==
    /\ pc = "host"
    /\ commandRun' = FALSE
    /\ ended' = "none"
    /\ viewFile = "note"
    /\ ~hasFocus
    /\ hasFocus' = TRUE
    /\ UNCHANGED <<vaultContent, showEisenhowerMatrix, viewFile, editorContent,
                   cursor, debouncePending, calls>>
    /\ UNCHANGED <<pc, extractVars, matrixVars, stripVars>>

\* the user takes the focus out of the editor
BlurEditor ==
    /\ pc = "host"
    /\ commandRun' = FALSE
    /\ ended' = "none"
    /\ viewFile = "note"
    /\ hasFocus
    /\ hasFocus' = FALSE
    /\ UNCHANGED <<vaultContent, showEisenhowerMatrix, viewFile, editorContent,
                   cursor, debouncePending, calls>>
    /\ UNCHANGED <<pc, extractVars, matrixVars, stripVars>>

\* the user types a task in the focused editor
UserEdit ==
    /\ pc = "host"
    /\ commandRun' = FALSE
    /\ ended' = "none"
    /\ viewFile = "note"
    /\ hasFocus
    /\ contentFactsOf(editorContent).canAddTask
    /\ editorContent' = addTask(editorContent).content
    /\ cursor' = addTask(editorContent).cursor
    /\ UNCHANGED <<vaultContent, showEisenhowerMatrix, viewFile, hasFocus,
                   debouncePending, calls>>
    /\ UNCHANGED <<pc, extractVars, matrixVars, stripVars>>

\* the editor saves its text to the vault: 'modify' fires
EditorSave ==
    /\ pc = "host"
    /\ commandRun' = FALSE
    /\ ended' = "none"
    /\ viewFile = "note"
    /\ editorContent # vaultContent
    /\ vaultContent' = editorContent
    /\ debouncePending' = TRUE
    /\ UNCHANGED <<showEisenhowerMatrix, viewFile, hasFocus, editorContent, cursor,
                   calls>>
    /\ UNCHANGED <<pc, extractVars, matrixVars, stripVars>>

\* the file is rewritten outside the editor with the same text: 'modify' fires
ExternalModify ==
    /\ pc = "host"
    /\ commandRun' = FALSE
    /\ ended' = "none"
    /\ ~debouncePending
    /\ debouncePending' = TRUE
    /\ UNCHANGED <<vaultContent, showEisenhowerMatrix, viewFile, hasFocus,
                   editorContent, cursor, calls>>
    /\ UNCHANGED <<pc, extractVars, matrixVars, stripVars>>

\* the debounced function runs
DebounceFire ==
    /\ pc = "host"
    /\ commandRun' = FALSE
    /\ ended' = "none"
    /\ debouncePending
    /\ inFlight < MaxCalls
    /\ debouncePending' = FALSE
    /\ IF (viewFile = "none" \/ hasFocus = FALSE) /\ ~isActivelyEditing
       THEN calls' = add(calls, reading)
       ELSE calls' = calls
    /\ UNCHANGED <<vaultContent, showEisenhowerMatrix, viewFile, hasFocus,
                   editorContent, cursor>>
    /\ UNCHANGED <<pc, extractVars, matrixVars, stripVars>>

\* the command 'Process Current File with EMatrix', the note being active
RunCommand ==
    /\ pc = "host"
    /\ commandRun' = TRUE
    /\ ended' = "none"
    /\ viewFile = "note"
    /\ inFlight < MaxCalls
    /\ ~isActivelyEditing
    /\ calls' = add(calls, reading)
    /\ UNCHANGED <<vaultContent, showEisenhowerMatrix, viewFile, hasFocus,
                   editorContent, cursor, debouncePending>>
    /\ UNCHANGED <<pc, extractVars, matrixVars, stripVars>>

\* vault.read of a call rejects (or its vault.modify does, the file left as
\* it is): the catch block logs the error and the call ends
ReadRejects ==
    /\ pc = "host"
    /\ commandRun' = FALSE
    /\ ended' = "error"
    /\ \E call \in BagToSet(calls) :
          calls' = remove(calls, call)
    /\ UNCHANGED <<vaultContent, showEisenhowerMatrix, viewFile, hasFocus,
                   editorContent, cursor, debouncePending>>
    /\ UNCHANGED <<pc, extractVars, matrixVars, stripVars>>

\* processFile from its read to its end.  The read gives the content the
\* file has at some moment between the call of vault.read and this step:
\* the content at the call or the content now.
Continue ==
    /\ pc = "host"
    /\ commandRun' = FALSE
    /\ \E call \in BagToSet(calls) :
          \E content \in {call.issued, vaultContent} :
          \E r \in {afterRead(content, call.activeView /\ viewFile = "note",
                               editorContent, cursor, hasFocus,
                               showEisenhowerMatrix)} :
              /\ calls' = remove(calls, call)
              /\ ended' = r.outcome
              /\ editorContent' =
                   IF r.outcome = "setValue"
                   THEN setValue(editorContent, r.text)
                   ELSE IF r.outcome = "modify" /\ viewFile = "note"
                        THEN modify(vaultContent, r.text)
                        ELSE editorContent
              /\ cursor' =
                   IF r.outcome = "setValue" \/ (r.outcome = "modify" /\ viewFile = "note")
                   THEN NoCursor
                   ELSE cursor
              /\ vaultContent' =
                   IF r.outcome = "modify"
                   THEN modify(vaultContent, r.text)
                   ELSE vaultContent
              /\ debouncePending' = (debouncePending \/ r.outcome = "modify")
    /\ UNCHANGED <<showEisenhowerMatrix, viewFile, hasFocus>>
    /\ UNCHANGED <<pc, extractVars, matrixVars, stripVars>>

NextHost ==
    \/ OpenNote
    \/ LeaveNote
    \/ FocusEditor
    \/ BlurEditor
    \/ UserEdit
    \/ EditorSave
    \/ ExternalModify
    \/ DebounceFire
    \/ RunCommand
    \/ ReadRejects
    \/ Continue

SpecHost == InitHost /\ [][NextHost]_vars

\* the plugin on the notes its guards are about: the notes around the
\* length of the short-file test and the rendered note without checkbox
InitGuard ==
    /\ pc = "host"
    /\ vaultContent \in GuardNotes \cup {NoteProcessed}
    /\ showEisenhowerMatrix \in BOOLEAN
    /\ viewFile = "none"
    /\ hasFocus = FALSE
    /\ editorContent = <<>>
    /\ cursor = NoCursor
    /\ debouncePending = FALSE
    /\ calls = EmptyBag
    /\ ended = "none"
    /\ commandRun = FALSE
    /\ ExtractIdle
    /\ MatrixIdle
    /\ StripIdle

SpecGuard == InitGuard /\ [][NextHost]_vars


(***************************************************************************)
(* Tag removal alone: cleanTask applied to a task string and then to its   *)
(* own result, for every string over a small alphabet.                     *)
(***************************************************************************)
StripAlphabet == {"#", "a", "-", " "}

StripInputs == UNION { [1..n -> StripAlphabet] : n \in 0..MaxStripLen }


InitStrip ==
    /\ pc = "strip"
    /\ stripInput \in StripInputs
    /\ stripOnce = <<>>
    /\ stripTwice = <<>>
    /\ ExtractIdle
    /\ MatrixIdle
    /\ HostIdle

StripFirst ==
    /\ pc = "strip"
    /\ stripOnce' = cleanTask(stripInput)
    /\ pc' = "stripped"
    /\ UNCHANGED <<stripInput, stripTwice, extractVars, matrixVars, hostVars>>

StripAgain ==
    /\ pc = "stripped"
    /\ stripTwice' = cleanTask(stripOnce)
    /\ pc' = "restripped"
    /\ UNCHANGED <<stripInput, stripOnce, extractVars, matrixVars, hostVars>>

NextStrip ==
    \/ StripFirst
    \/ StripAgain

SpecStrip == InitStrip /\ [][NextStrip]_vars

(***************************************************************************)
(* Vocabulary of the properties of extractTasksFromContent.                *)
(***************************************************************************)
IsChecklistLine(l) == taskMatch(l).ok
IsCheckedLine(l) == taskMatch(l).ok /\ taskMatch(l).g2 = "x"
IsUncheckedLine(l) == taskMatch(l).ok /\ taskMatch(l).g2 = " "
IsListLine(l) == listMatch(l)
Emitted(j) == \E n \in 1..Len(origin) : origin[n] = j
Scanned(j) == j \in 1..(i - 1)

\* lines k..j belong to one contiguous list block
SameBlock(k, j) == \A m \in k..j : IsListLine(lines[m])

\* line j lies under a list item of smaller indentation in its block
NestedUnder(j, k) ==
    /\ k < j
    /\ SameBlock(k, j)
    /\ LeadingSpaces(lines[k]) < LeadingSpaces(lines[j])

Nested(j) == \E k \in 1..(j - 1) : NestedUnder(j, k)

\* C1: no returned task comes from a checked checklist line, whatever the
\* line's indentation and whatever the lines before it.
C1_NoCheckedTaskReturned ==
    \A n \in 1..Len(origin) : ~IsCheckedLine(lines[origin[n]])

\* C1 witness: a call has returned tasks from a document that holds a checked
\* line without indentation and an indented checked line met outside a list.
C1_Witness ==
    /\ pc = "returned"
    /\ Len(tasks) > 0
    /\ \E j \in 1..Len(lines) :
         IsCheckedLine(lines[j]) /\ LeadingSpaces(lines[j]) = 0
    /\ \E j \in 1..Len(lines) :
         /\ IsCheckedLine(lines[j])
         /\ LeadingSpaces(lines[j]) > 0
         /\ (j = 1 \/ ~IsListLine(lines[j - 1]))

\* C2: no returned task comes from an indented unchecked checklist line that
\* is preceded in its contiguous list block by a list line of smaller
\* indentation (a bullet, an unchecked checkbox or a checked checkbox).
C2_NoNestedTaskEmitted ==
    \A n \in 1..Len(origin) :
        ~(/\ IsUncheckedLine(lines[origin[n]])
          /\ LeadingSpaces(lines[origin[n]]) > 0
          /\ Nested(origin[n]))

\* C3: when the call returns, every unchecked checklist line that is not
\* nested under another list item of its block has contributed its content.
C3_EveryTopLevelTaskReturned ==
    pc = "returned" =>
        \A j \in 1..Len(lines) :
            (IsUncheckedLine(lines[j]) /\ ~Nested(j)) =>
                \E n \in 1..Len(origin) :
                    /\ origin[n] = j
                    /\ n <= Len(tasks)
                    /\ tasks[n] = trim(taskMatch(lines[j]).g3)

\* C4: every scanned unchecked checklist line of indentation 0 was extracted,
\* and right after such a line inList is true.
C4_TopLevelAlwaysExtracted ==
    /\ \A j \in 1..Len(lines) :
         (Scanned(j) /\ IsUncheckedLine(lines[j]) /\ LeadingSpaces(lines[j]) = 0)
            => Emitted(j)
    /\ (/\ i > 1
        /\ IsUncheckedLine(lines[i - 1])
        /\ LeadingSpaces(lines[i - 1]) = 0) => inList

\* C4 witness: two unchecked lines of indentation 0 in a row were scanned
\* and extracted: inList was false before the first and true before the
\* second.
C4_Witness ==
    /\ i = 3
    /\ IsUncheckedLine(lines[1]) /\ LeadingSpaces(lines[1]) = 0
    /\ IsUncheckedLine(lines[2]) /\ LeadingSpaces(lines[2]) = 0
    /\ Emitted(1)
    /\ Emitted(2)
    /\ inList

\* C5: the result is in source line order, each line contributes at most one
\* element, and each element is the content of the line it comes from.
C5_SourceOrderNoDuplicates ==
    /\ Len(tasks) = Len(origin)
    /\ \A a, b \in 1..Len(origin) : a < b => origin[a] < origin[b]
    /\ \A n \in 1..Len(origin) :
         n <= Len(tasks) => tasks[n] = trim(taskMatch(lines[origin[n]]).g3)

\* C5 witness: a returned result of two tasks with different texts, taken
\* from two lines that are not adjacent.
C5_Witness ==
    /\ pc = "returned"
    /\ Len(tasks) = 2
    /\ tasks[1] # tasks[2]
    /\ origin[2] > origin[1] + 1

\* C6: the number of tasks is at most the number of scanned lines that match
\* the checklist pattern, hence at most the number of such lines of the
\* document when the call returns.
C6_AtMostChecklistLines ==
    /\ Len(tasks) <= Cardinality({j \in 1..(i - 1) : IsChecklistLine(lines[j])})
    /\ Len(tasks) <= Cardinality({j \in 1..Len(lines) : IsChecklistLine(lines[j])})

\* C6 witness: a returned result that is shorter than the number of
\* checklist lines, from a document that also holds other lines.
C6_Witness ==
    /\ pc = "returned"
    /\ Len(tasks) >= 1
    /\ Len(tasks) < Cardinality({j \in 1..Len(lines) : IsChecklistLine(lines[j])})
    /\ \E j \in 1..Len(lines) : ~IsChecklistLine(lines[j])

(***************************************************************************)
(* Vocabulary of the properties of createEisenhowerMatrixContent.          *)
(***************************************************************************)
Range(f) == {f[n] : n \in DOMAIN f}

\* the tasks categorized so far
Categorized == 1..Len(flags)

InBucket(n, b) == n \in Range(placed[b])

\* the positions of s where a tag token starts: "#" followed by a tag character
TokenStarts(s) ==
    {q \in 1..(Len(s) - 1) : s[q] = "#" /\ IsTagChar(s[q + 1])}

\* the names of the tag tokens of s: after each "#", the maximal run of
\* letters, digits, "_" and "-"
TagNames(s) == {SubSeq(s, q + 1, RunEnd(s, q + 1)) : q \in TokenStarts(s)}

Folded(name) == [n \in 1..Len(name) |-> toLowerCase(name[n])]

\* s holds a tag token whose name equals name, ignoring case
HasTagNamed(s, name) == \E nm \in TagNames(s) : Folded(nm) = name

TaskA == <<"A", " ">> \o UrgentTag \o <<" ">> \o ImportantTag
TaskB == <<"B", " ">> \o ImportantTag
TaskC == <<"C", " ">> \o UrgentTag
TaskD == <<"D", " ">> \o LaterTag
TaskE == <<"E">>
TaskSomeday == <<"E", " ", "#", "s", "o", "m", "e", "d", "a", "y">>
TaskUrgentCare == <<"H", " ">> \o UrgentTag \o <<"-", "c", "a", "r", "e">>

\* C7: classification follows the priority order, first match wins: urgent
\* and important -> Do First; else important -> Schedule; else urgent ->
\* Delegate; else later -> Eliminate; else Backlog.  A task that carries
\* #later together with #urgent or #important is never put in Eliminate.
C7_PriorityOrder ==
    \A n \in Categorized :
        LET u == flags[n].urgent
            im == flags[n].important
            l == flags[n].later
            task == matrixTasks[n]
        IN
        /\ (u /\ im) => InBucket(n, "urgentImportant")
        /\ (~u /\ im) => InBucket(n, "notUrgentImportant")
        /\ (u /\ ~im) => InBucket(n, "urgentNotImportant")
        /\ (~u /\ ~im /\ l) => InBucket(n, "notUrgentNotImportant")
        /\ (~u /\ ~im /\ ~l) => InBucket(n, "backlog")
        /\ (/\ HasTagNamed(task, Tail(LaterTag))
            /\ \/ HasTagNamed(task, Tail(UrgentTag))
               \/ HasTagNamed(task, Tail(ImportantTag)))
             => ~InBucket(n, "notUrgentNotImportant")
        /\ task = TaskA => InBucket(n, "urgentImportant")
        /\ task = TaskB => InBucket(n, "notUrgentImportant")
        /\ task = TaskC => InBucket(n, "urgentNotImportant")
        /\ task = TaskD => InBucket(n, "notUrgentNotImportant")
        /\ task = TaskE => InBucket(n, "backlog")

\* C7 witness: a call has returned after categorizing a task with #later and
\* #urgent, a task with #important and #later, and a task with #later alone.
C7_Witness ==
    /\ pc = "rendered"
    /\ \E n \in Categorized :
         flags[n].later /\ flags[n].urgent /\ ~flags[n].important
    /\ \E n \in Categorized :
         flags[n].later /\ flags[n].important /\ ~flags[n].urgent
    /\ \E n \in Categorized :
         flags[n].later /\ ~flags[n].important /\ ~flags[n].urgent

\* C8: every categorized task is in exactly one of the five bucket lists, the
\* lengths of the five lists add up to the number of categorized tasks, and
\* two tasks with the same set of tags are in the same bucket.
C8_TotalAndExclusive ==
    /\ Len(urgentImportant) + Len(notUrgentImportant) + Len(urgentNotImportant)
         + Len(notUrgentNotImportant) + Len(backlog) = taskIndex - 1
    /\ pc = "rendered" =>
         Len(urgentImportant) + Len(notUrgentImportant) + Len(urgentNotImportant)
           + Len(notUrgentNotImportant) + Len(backlog) = Len(matrixTasks)
    /\ \A n \in Categorized :
         Cardinality({b \in BucketNames : InBucket(n, b)}) = 1
    /\ \A b \in BucketNames :
         \A a, c \in 1..Len(placed[b]) : a # c => placed[b][a] # placed[b][c]
    /\ \A n, m \in Categorized :
         TagNames(matrixTasks[n]) = TagNames(matrixTasks[m]) =>
            \A b \in BucketNames : InBucket(n, b) <=> InBucket(m, b)

\* C8 witness: a call has returned with three tasks in at least two buckets,
\* two of them different texts with the same set of tags.
C8_Witness ==
    /\ pc = "rendered"
    /\ Len(matrixTasks) = 3
    /\ Cardinality({b \in BucketNames : placed[b] # <<>>}) >= 2
    /\ \E n, m \in Categorized :
         /\ matrixTasks[n] # matrixTasks[m]
         /\ TagNames(matrixTasks[n]) = TagNames(matrixTasks[m])
         /\ TagNames(matrixTasks[n]) # {}

C10_WholeTokenDetection ==
    \A n \in Categorized :
        /\ flags[n].urgent <=> HasTagNamed(matrixTasks[n], Tail(UrgentTag))
        /\ flags[n].important <=> HasTagNamed(matrixTasks[n], Tail(ImportantTag))
        /\ flags[n].later <=> HasTagNamed(matrixTasks[n], Tail(LaterTag))

(***************************************************************************)
(* Vocabulary of the properties of tag removal.                            *)
(***************************************************************************)
\* the ends a tag token that starts with the "#" at q can have: a run of
\* letters, digits, "_" and "-" after the "#" that stops at a word boundary
TokenEnds(s, q) ==
    {e \in (q + 1)..Len(s) :
        /\ \A n \in (q + 1)..e : IsTagChar(s[n])
        /\ WordBoundary(s, e)}

\* position r of s lies in a tag token
InToken(s, r) ==
    \E q \in 1..r : s[q] = "#" /\ \E e \in TokenEnds(s, q) : r <= e

KeptPositions(s) == {r \in 1..Len(s) : ~InToken(s, r)}

\* s with the characters of its tag tokens left out, nothing else changed
WithoutTokens(s) ==
    LET kept == KeptPositions(s) IN
    [n \in 1..Cardinality(kept) |->
        s[CHOOSE r \in kept : Cardinality({x \in kept : x < r}) = n - 1]]

Quadrants ==
    <<"urgentImportant", "notUrgentImportant", "urgentNotImportant",
      "notUrgentNotImportant">>

BucketList(b) ==
    CASE b = "urgentImportant" -> urgentImportant
      [] b = "notUrgentImportant" -> notUrgentImportant
      [] b = "urgentNotImportant" -> urgentNotImportant
      [] b = "notUrgentNotImportant" -> notUrgentNotImportant
      [] b = "backlog" -> backlog

TaskMiddleTag == <<"M", " ">> \o LaterTag \o <<" ", "N">>

\* C11: the text displayed for a quadrant task is the task with every tag
\* token removed and then only its outer whitespace trimmed: interior
\* whitespace is not collapsed and no other character is changed.
C11_QuadrantTextIsStripped ==
    pc = "rendered" =>
        \A q \in 1..Len(Quadrants) :
            LET b == Quadrants[q] IN
            /\ Len(BucketList(b)) = Len(placed[b])
            /\ Len(block.quadrants[q].list.items) = Len(placed[b])
            /\ \A n \in 1..Len(placed[b]) :
                 LET task == matrixTasks[placed[b][n]] IN
                 /\ BucketList(b)[n] = trim(WithoutTokens(task))
                 /\ block.quadrants[q].list.items[n]
                      = CheckboxPrefix \o trim(WithoutTokens(task))
                 /\ task = TaskMiddleTag =>
                      BucketList(b)[n] = <<"M", " ", " ", "N">>
                 /\ task = TaskA => BucketList(b)[n] = <<"A">>

\* C11 witness: the returned content shows a quadrant task whose tag stood
\* between two words and a quadrant task that carried two tags.
C11_Witness ==
    /\ pc = "rendered"
    /\ \E n \in 1..Len(placed["notUrgentNotImportant"]) :
         matrixTasks[placed["notUrgentNotImportant"][n]] = TaskMiddleTag
    /\ \E n \in 1..Len(placed["urgentImportant"]) :
         matrixTasks[placed["urgentImportant"][n]] = TaskA

\* C12: tag stripping is idempotent: stripping an already stripped string
\* gives the same string, and a stripped string holds no tag token.
C12_StripIdempotent ==
    /\ pc = "restripped" => stripTwice = stripOnce
    /\ pc \in {"stripped", "restripped"} =>
         /\ KeptPositions(stripOnce) = 1..Len(stripOnce)
         /\ trim(stripOnce) = stripOnce

\* C12 witness: a string was stripped twice, the first pass removed a tag
\* and left a "#" that starts no tag token.
C12_Witness ==
    /\ pc = "restripped"
    /\ stripOnce # stripInput
    /\ \E q \in 1..Len(stripInput) : InToken(stripInput, q)
    /\ \E q \in 1..Len(stripOnce) : stripOnce[q] = "#"

\* C13: within each of the five rendered sections the tasks stand in the
\* order they have in the input task sequence.
C13_OrderPreservedPerBucket ==
    /\ \A b \in BucketNames :
         /\ Len(BucketList(b)) = Len(placed[b])
         /\ \A a, c \in 1..Len(placed[b]) : a < c => placed[b][a] < placed[b][c]
         /\ \A n \in 1..Len(placed[b]) :
              n <= Len(BucketList(b)) =>
                 BucketList(b)[n] = trim(WithoutTokens(matrixTasks[placed[b][n]]))
    /\ pc = "rendered" =>
         /\ \A q \in 1..Len(Quadrants) :
              /\ Len(block.quadrants[q].list.items) = Len(placed[Quadrants[q]])
              /\ \A n \in 1..Len(placed[Quadrants[q]]) :
                   n <= Len(block.quadrants[q].list.items) =>
                      block.quadrants[q].list.items[n] =
                         CheckboxPrefix
                           \o trim(WithoutTokens(matrixTasks[placed[Quadrants[q]][n]]))
         /\ Len(block.backlog) = Len(placed["backlog"])
         /\ \A n \in 1..Len(placed["backlog"]) :
              n <= Len(block.backlog) =>
                 block.backlog[n] =
                    CheckboxPrefix
                      \o trim(WithoutTokens(matrixTasks[placed["backlog"][n]]))

\* C13 witness: the returned content has a quadrant with two tasks of
\* different display texts and a backlog with two different entries.
C13_Witness ==
    /\ pc = "rendered"
    /\ \E q \in 1..Len(Quadrants) :
         /\ Len(block.quadrants[q].list.items) = 2
         /\ block.quadrants[q].list.items[1] # block.quadrants[q].list.items[2]
    /\ Len(matrixTasks) = 3

\* the placeholder of each quadrant
Placeholder ==
    <<NoDoFirstMessage, NoScheduleMessage, NoDelegateMessage, NoEliminateMessage>>

\* C14: a quadrant shows its placeholder exactly when its bucket is empty,
\* and otherwise one unchecked bullet per task of the bucket; the four
\* placeholders differ; for the empty task sequence all four placeholders
\* are shown and the Backlog section has no entry.
C14_PlaceholderIffEmpty ==
    pc = "rendered" =>
        /\ Len(block.quadrants) = 4
        /\ \A q \in 1..Len(Quadrants) :
             LET list == block.quadrants[q].list
                 bucket == BucketList(Quadrants[q])
             IN
             /\ list.empty <=> Len(bucket) = 0
             /\ list.empty => list.message = Placeholder[q] /\ list.items = <<>>
             /\ ~list.empty =>
                  /\ Len(list.items) = Len(bucket)
                  /\ \A n \in 1..Len(list.items) :
                       /\ Len(list.items[n]) >= Len(CheckboxPrefix)
                       /\ SubSeq(list.items[n], 1, Len(CheckboxPrefix)) = CheckboxPrefix
                       /\ n <= Len(bucket) =>
                            list.items[n] = CheckboxPrefix \o bucket[n]
        /\ \A q, r \in 1..Len(Quadrants) :
             (q # r /\ block.quadrants[q].list.empty /\ block.quadrants[r].list.empty)
                => block.quadrants[q].list.message # block.quadrants[r].list.message
        /\ matrixTasks = <<>> =>
             /\ \A q \in 1..Len(Quadrants) : block.quadrants[q].list.empty
             /\ block.backlog = <<>>

\* C14 witness: the returned content has an empty quadrant next to a
\* quadrant with two tasks.
C14_Witness ==
    /\ pc = "rendered"
    /\ \E q \in 1..Len(Quadrants) : block.quadrants[q].list.empty
    /\ \E q \in 1..Len(Quadrants) : Len(block.quadrants[q].list.items) = 2

HoldsMarkerText(s) ==
    MatchesIn(s, FenceMarker) # {} \/ MatchesIn(s, ContainerMarker) # {}

\* C16: in the returned content the fence marker and the wrapper marker each
\* occur exactly once, whatever the title and the tasks are.
C16_MarkersOccurOnce ==
    pc = "rendered" =>
        /\ Occurrences(contentLines(block), FenceMarker) = 1
        /\ Occurrences(contentLines(block), ContainerMarker) = 1

\* the same for titles and tasks that hold no marker text
MarkersOccurOnceOtherwise ==
    (/\ pc = "rendered"
     /\ ~HoldsMarkerText(title)
     /\ \A n \in 1..Len(matrixTasks) : ~HoldsMarkerText(matrixTasks[n]))
        => /\ Occurrences(contentLines(block), FenceMarker) = 1
           /\ Occurrences(contentLines(block), ContainerMarker) = 1

\* the step-by-step calls and the functions give the same results
ExtractAgrees == pc = "returned" => tasks = extractTasksFromContent(lines)
RenderAgrees ==
    pc = "rendered" =>
        contentLines(block) = createEisenhowerMatrixContent(matrixTasks, title)

(***************************************************************************)
(* Properties of processFile and its callers.  A step ends a call when it  *)
(* takes the call out of the calls in flight; ended then tells how the     *)
(* call ended.                                                             *)
(***************************************************************************)
Writes == {"setValue", "modify"}

\* the step ends a call that was started on the content the file still has,
\* so that this is the content its read gave
EndsCallOn(content) ==
    /\ vaultContent = content
    /\ \E call \in BagToSet(calls) :
          /\ call.issued = content
          /\ calls' = remove(calls, call)

\* the contents createEisenhowerMatrixContent returns for one or two tasks
BlockTasks ==
    {<<"A", " ", "#", "u", "r", "g", "e", "n", "t">>,
     <<"B", " ", "#", "i", "m", "p", "o", "r", "t", "a", "n", "t">>,
     <<"E">>, <<"F">>}
MatrixBlocks ==
    {createEisenhowerMatrixContent(ts, Basename) :
        ts \in {<<a>> : a \in BlockTasks}
                 \cup {<<a, b>> : a \in BlockTasks, b \in BlockTasks}}

\* C15: a call of processFile on a content that createEisenhowerMatrixContent
\* returned for a task list that is not empty writes nothing: the content is
\* taken as already processed.
C15_RenderedBlockNotRewritten ==
    [][\A content \in MatrixBlocks :
          (/\ EndsCallOn(content)
           /\ viewFile = "note" => editorContent = content)
             => ended' \notin Writes]_vars

\* the same for the blocks with no entry in the Backlog section
BlocksWithoutBacklog ==
    {b \in MatrixBlocks : extractTasksFromContent(b) = <<>>}
BlockWithoutBacklogNotRewritten ==
    [][\A content \in BlocksWithoutBacklog :
          EndsCallOn(content) => ended' \notin Writes]_vars

\* a call on a block without Backlog entry has ended
BlockWithoutBacklogRead ==
    vaultContent \in BlocksWithoutBacklog /\ ended = "no tasks"

\* C17: a document whose content does not hold the text '#ematrix' is never
\* written by processFile: a call that ends with editor.setValue found the
\* tag in the text of the editor, and a call that ends with vault.modify
\* found it in the content of the file.
C17_UntaggedNeverWritten ==
    [][/\ ended' = "setValue" => includes(editorContent, EmatrixTag)
       /\ ended' = "modify" => includes(vaultContent, EmatrixTag)]_vars

\* a write to a content without the tag is the write of a call that was
\* started on an earlier content of the file, one that held the tag
UntaggedWrittenOnlyByEarlierCall ==
    [][(ended' \in Writes /\ ~includes(vaultContent, EmatrixTag))
          => \E call \in BagToSet(calls) :
                /\ calls' = remove(calls, call)
                /\ call.issued # vaultContent
                /\ includes(call.issued, EmatrixTag)]_vars

\* the matrix of the tasks of a content, kept for the contents of ContentPool
matrixOfTable ==
    [c \in ContentPool |->
        createEisenhowerMatrixContent(extractTasksFromContent(c), Basename)]
matrixOf(content) ==
    IF content \in ContentPool
    THEN matrixOfTable[content]
    ELSE createEisenhowerMatrixContent(extractTasksFromContent(content), Basename)

\* the text the step wrote, for a step that ends a call with a write
written == IF ended' = "setValue" THEN editorContent' ELSE vaultContent'

\* C18: with the setting showEisenhowerMatrix off the text processFile
\* writes is the placeholder text of the settings; with the setting on it is
\* createEisenhowerMatrixContent(tasks, basename) for the tasks extracted
\* from the content the call read.
C18_WrittenTextBySetting ==
    [][ended' \in Writes =>
          IF showEisenhowerMatrix
          THEN \E call \in BagToSet(calls) :
                  /\ calls' = remove(calls, call)
                  /\ \E content \in {call.issued, vaultContent} :
                        written = matrixOf(content)
          ELSE written = placeholderText]_vars

\* C18 witness: with the setting off a call has ended with vault.modify and
\* the file holds the placeholder text.
C18_Witness ==
    /\ ~showEisenhowerMatrix
    /\ ended = "modify"
    /\ vaultContent = placeholderText

\* with the setting on a call has ended with editor.setValue
MatrixWritten ==
    /\ showEisenhowerMatrix
    /\ ended = "setValue"
    /\ editorContent \in MatrixBlocks

\* the call the command has just started is the only call in flight, and the
\* note it was run on is not focused, holds the tag and an unchecked
\* top-level task, and the setting is on
CommandCallAlone ==
    /\ commandRun
    /\ inFlight = 1
    /\ viewFile = "note"
    /\ ~hasFocus
    /\ showEisenhowerMatrix
    /\ editorContent = vaultContent
    /\ includes(editorContent, EmatrixTag)
    /\ extractTasksFromContent(editorContent) # <<>>

\* C19: the command, run on a note that is not focused and holds '#ematrix'
\* and an unchecked top-level task, with the setting on, replaces the content
\* of the note by the matrix of its tasks: its call, unless the read fails,
\* ends with editor.setValue of that matrix.
C19_CommandReplacesContent ==
    [][(CommandCallAlone /\ ended' \notin {"none", "error"})
          => /\ ended' = "setValue"
             /\ editorContent' = matrixOf(editorContent)]_vars

\* the same for a note of fifty characters or more in which every checkbox
\* is an unchecked top-level task, the cursor at the start of the text
CommandReplacesLongPlainContent ==
    [][(/\ CommandCallAlone
        /\ ~isTooShort(editorContent)
        /\ countTasks(editorContent) = Len(extractTasksFromContent(editorContent))
        /\ cursor = NoCursor
        /\ ended' \notin {"none", "error"})
          => /\ ended' = "setValue"
             /\ editorContent' = matrixOf(editorContent)]_vars

\* the command has been run on such a note
CommandCallOnPlainNote ==
    /\ CommandCallAlone
    /\ vaultContent = NoteUrgent
    /\ cursor = NoCursor

\* the replacement texts of the call the step ends: one for each content
\* its read can have given
replacementsOfEndedCall ==
    {IF showEisenhowerMatrix THEN matrixOf(content) ELSE placeholderText :
        content \in UNION {{call.issued, vaultContent} :
                             call \in {c \in BagToSet(calls) :
                                          calls' = remove(calls, c)}}}

\* C20: a call of processFile writes at most once, and its write puts the
\* whole replacement text in the place of the whole content; a call whose
\* read fails, and a call that ends at one of its guards, leaves the file
\* and the text of the editor as they are.
C20_OneWholeWriteOrNone ==
    [][ended' # "none" =>
          /\ BagCardinality(calls') = BagCardinality(calls) - 1
          /\ ended' = "setValue" =>
               /\ editorContent' \in replacementsOfEndedCall
               /\ vaultContent' = vaultContent
          /\ ended' = "modify" =>
               /\ vaultContent' \in replacementsOfEndedCall
               /\ editorContent' = IF viewFile = "note" THEN vaultContent'
                                   ELSE editorContent
          /\ ended' \notin Writes =>
               /\ vaultContent' = vaultContent
               /\ editorContent' = editorContent]_vars

\* C20 witness: the read of a call on a closed note with tag and tasks has
\* failed, the call has ended and the note holds its content.
C20_Witness ==
    /\ ended = "error"
    /\ viewFile = "none"
    /\ vaultContent = NoteUrgent

\* a call has ended with editor.setValue
SetValueDone == ended = "setValue" /\ editorContent \in MatrixBlocks

\* C21: at most one call of processFile for the note is in flight at any
\* time: no handler starts a call while an earlier call is between its
\* awaited read and its end.
C21_AtMostOneInFlight == inFlight <= 1

\* a second call is started only by the command or by an event handler of
\* onload, each of which calls processFile without looking at earlier calls
SecondCallStartedByHandler ==
    [][(inFlight = 1 /\ BagCardinality(calls') = 2)
          => \/ commandRun'
             \/ viewFile = "none" /\ viewFile' = "note"
             \/ debouncePending /\ ~debouncePending']_vars

(***************************************************************************)
(* processFile from extraction to rendering: extractTasksFromContent on    *)
(* the lines of a content, then, for a task list that is not empty,        *)
(* createEisenhowerMatrixContent on the tasks and the basename.            *)
(***************************************************************************)
MalformedLine == <<"-", " ", "[", "X", "]", " ", "m">>
SpacedTagLine == Indent2 \o Unchecked \o <<" ", "G", " ">> \o UrgentTag \o <<" ">>

PipelinePool ==
    { Unchecked \o <<"A", " ">> \o UrgentTag \o <<" ">> \o ImportantTag,
      Indent2 \o Unchecked \o <<"B", " ">> \o LaterTag,
      Unchecked \o <<"E">>,
      SpacedTagLine,
      Checked \o <<"d">>,
      Bullet \o <<"f">>,
      <<>>,
      MalformedLine,
      <<"t", " ">> \o UrgentTag }

PipelineDocuments == UNION { [1..n -> PipelinePool] : n \in 1..MaxLines }

InitPipeline ==
    /\ pc = "scan"
    /\ lines \in PipelineDocuments
    /\ i = 1
    /\ tasks = <<>>
    /\ inList = FALSE
    /\ previousIndent = 0
    /\ origin = <<>>
    /\ MatrixIdle
    /\ StripIdle
    /\ HostIdle

\* the call of createEisenhowerMatrixContent(tasks, file.basename)
CallRender ==
    /\ pc = "returned"
    /\ Len(tasks) # 0
    /\ pc' = "categorize"
    /\ matrixTasks' = tasks
    /\ title' = Basename
    /\ UNCHANGED <<taskIndex, urgentImportant, notUrgentImportant, urgentNotImportant,
                   notUrgentNotImportant, backlog, placed, flags, block>>
    /\ UNCHANGED <<extractVars, stripVars, hostVars>>

NextPipeline ==
    \/ NextExtract
    \/ CallRender
    \/ NextMatrix

SpecPipeline == InitPipeline /\ [][NextPipeline]_vars

IsString(s) == DOMAIN s = 1..Len(s)

\* the entries of the returned block: the items of the four lists and the
\* lines of the Backlog section
RECURSIVE entryCount(_)
entryCount(qs) ==
    IF qs = <<>> THEN 0 ELSE Len(Head(qs).list.items) + entryCount(Tail(qs))

\* C22: extraction and rendering are total.  Whatever the lines are, a
\* malformed line among them, each step of the scan has a next step until
\* the function returns, and the classifier has a bucket and a text for
\* each task; extraction returns a sequence
\* of strings, at most one for a line, and the empty sequence for the empty
\* string; rendering returns a block with its four lists that holds each
\* task once.
C22_ExtractionAndRenderingTotal ==
    /\ pc = "scan" => ENABLED NextExtract
    /\ (pc = "categorize" /\ taskIndex <= Len(matrixTasks)) =>
         LET task == matrixTasks[taskIndex]
             into == categorize(hasUrgentTag(task), hasImportantTag(task),
                                hasLaterTag(task))
         IN /\ into \cap BucketNames # {}
            /\ \A b \in into : IsString(pushedText(task, b))
    /\ pc # "scan" =>
         /\ IsString(tasks)
         /\ Len(tasks) <= Len(lines)
         /\ \A n \in 1..Len(tasks) : IsString(tasks[n])
         /\ lines = << <<>> >> => tasks = <<>>
    /\ pc = "rendered" =>
         /\ block.rendered
         /\ Len(block.quadrants) = 4
         /\ entryCount(block.quadrants) + Len(block.backlog) = Len(matrixTasks)
         /\ Len(contentLines(block)) > 0

\* C22 witness: a content with a malformed checklist line, an empty line and
\* a task has been extracted and rendered.
C22_Witness ==
    /\ pc = "rendered"
    /\ \E n \in 1..Len(lines) : lines[n] = MalformedLine
    /\ \E n \in 1..Len(lines) : lines[n] = <<>>

\* the empty string has been scanned
EmptyStringScanned == pc = "returned" /\ lines = << <<>> >>

\* C23: processFile never replaces the content of the note, by
\* editor.setValue or by vault.modify, at a moment when the note is shown in
\* the active view and its editor has the focus.
C23_NoWriteWhileFocused ==
    [][ended' \in Writes => ~(viewFile = "note" /\ hasFocus)]_vars

\* editor.setValue is never called on a focused editor, and a call that
\* writes to the note while it is focused is a call that was started when no
\* view showed the note
WriteWhileFocusedOnlyByModify ==
    [][(ended' \in Writes /\ viewFile = "note" /\ hasFocus)
          => /\ ended' = "modify"
             /\ \E call \in BagToSet(calls) :
                   calls' = remove(calls, call) /\ ~call.activeView]_vars

(***************************************************************************)
(* The host with its scheduling: a pending debounce timer runs out, and    *)
(* the awaited read of a call resolves.                                    *)
(***************************************************************************)
SpecHostLive ==
    /\ InitHost
    /\ [][NextHost]_vars
    /\ WF_vars(DebounceFire)
    /\ WF_vars(Continue)

\* the steps that are not of the user: the timer, the calls of processFile
\* and the editor saving its text
PluginStep == DebounceFire \/ ReadRejects \/ Continue \/ EditorSave

\* C24: when from some moment on the user does nothing, neither edits nor
\* focus changes nor commands, the plugin writes only finitely often: from
\* some moment on no call ends with a write.
C24_EventuallyQuiescent ==
    (<>[][PluginStep]_vars) => (<>[][ended' \notin Writes]_vars)

\* a content that processFile, run on it, writes again as it is
RewrittenAsItIs(content) ==
    /\ contentOutcomeOf(content, showEisenhowerMatrix).outcome = "replace"
    /\ contentOutcomeOf(content, showEisenhowerMatrix).text = content

\* the closed note holds such a content, written by the plugin, and the
\* 'modify' event of that write is pending
RewriteLoopEntered ==
    /\ viewFile = "none"
    /\ ended = "modify"
    /\ debouncePending
    /\ RewrittenAsItIs(vaultContent)

\* the content the target of the write holds at the moment of the write: the
\* text of the editor for editor.setValue, the file for vault.modify
targetContent == IF ended' = "setValue" THEN editorContent ELSE vaultContent

\* the text a call writes is the matrix of the content its target holds at
\* the moment of the write
WriteFromPresentContent ==
    [][(ended' \in Writes /\ showEisenhowerMatrix)
          => written = matrixOf(targetContent)]_vars

\* C25: no edit of the user is lost to a stale replacement: the text a call
\* writes is computed from the content its target holds at the moment of the
\* write, so a task the user has added to that content before the write is in
\* the text written.
C25_NoEditLostToStaleReplacement ==
    [][(/\ ended' \in Writes
        /\ showEisenhowerMatrix
        /\ includes(targetContent, NewTaskLine))
          => includes(written, NewTaskLine)]_vars

\* the step scans line i
ScansLine == pc = "scan" /\ i <= Len(lines) /\ i' = i + 1

IsIndentedUnchecked(l) == IsUncheckedLine(l) /\ LeadingSpaces(l) > 0

\* C26: an unchecked checklist line with indentation is emitted exactly when
\* inList is false as the line is scanned; emitting it sets inList, so of two
\* such lines in a row only the first can be emitted; a line that is not
\* emitted leaves inList as it was.
C26_IndentedEmittedIffOutsideList ==
    [][(ScansLine /\ IsIndentedUnchecked(lines[i])) =>
          /\ (tasks' # tasks) <=> ~inList
          /\ tasks' # tasks =>
               /\ tasks' = Append(tasks, trim(taskMatch(lines[i]).g3))
               /\ inList'
          /\ tasks' = tasks => inList' = inList
          /\ (i > 1 /\ IsIndentedUnchecked(lines[i - 1])) => tasks' = tasks]_vars

\* C26 witness: of two indented unchecked lines in a row, met outside a list,
\* the first was emitted and the second was not.
C26_Witness ==
    /\ i > 2
    /\ IsIndentedUnchecked(lines[1])
    /\ IsIndentedUnchecked(lines[2])
    /\ Emitted(1)
    /\ ~Emitted(2)

\* C27: scanning a checked checklist line changes nothing: it emits no task
\* and leaves inList, previousIndent and the tasks as they were.
C27_CheckedLineChangesNothing ==
    [][(ScansLine /\ IsCheckedLine(lines[i])) =>
          /\ tasks' = tasks
          /\ origin' = origin
          /\ inList' = inList
          /\ previousIndent' = previousIndent]_vars

\* C27 witness: a checked line was scanned inside a list, after an emitted
\* indented task, and the list context and the indentation are still there.
C27_Witness ==
    /\ i = 3
    /\ IsIndentedUnchecked(lines[1])
    /\ IsCheckedLine(lines[2])
    /\ inList
    /\ previousIndent > 0
    /\ Len(tasks) = 1

\* a checked line was scanned outside a list
CheckedLineScannedOutsideList ==
    i = 2 /\ IsCheckedLine(lines[1]) /\ ~inList /\ tasks = <<>>

\* the three cases of a line: it matches the checklist pattern; it matches
\* the list-marker pattern and not the checklist pattern; it matches neither
CaseChecklist(l) == IsChecklistLine(l)
CaseGenericList(l) == ~IsChecklistLine(l) /\ IsListLine(l)
CaseOther(l) == ~IsChecklistLine(l) /\ ~IsListLine(l)

CasesOf(l) ==
    {c \in {"checklist", "list", "other"} :
        \/ c = "checklist" /\ CaseChecklist(l)
        \/ c = "list" /\ CaseGenericList(l)
        \/ c = "other" /\ CaseOther(l)}

\* C28: a line that matches the list-marker pattern and not the checklist
\* pattern sets inList and emits nothing; a line that is blank or matches
\* neither pattern clears inList, sets previousIndent to 0 and emits nothing;
\* every line is in exactly one of the three cases, and the step taken on it
\* is the step of its case.
C28_ThreeCasesOfALine ==
    [][ScansLine =>
          /\ Cardinality(CasesOf(lines[i])) = 1
          /\ CaseGenericList(lines[i]) =>
               /\ inList'
               /\ tasks' = tasks
               /\ origin' = origin
               /\ ScanListItem
          /\ CaseOther(lines[i]) =>
               /\ ~inList'
               /\ previousIndent' = 0
               /\ tasks' = tasks
               /\ origin' = origin
               /\ ScanOtherLine
          /\ trim(lines[i]) = <<>> => CaseOther(lines[i])
          /\ CaseChecklist(lines[i]) =>
               ScanTopLevelTask \/ ScanOrphanTask \/ ScanSkippedTask]_vars

\* C28 witness: a bullet line has opened a list context after an emitted
\* indented task, and a blank line has then closed it and reset the
\* indentation.
C28_Witness ==
    /\ i = 4
    /\ IsIndentedUnchecked(lines[1])
    /\ CaseGenericList(lines[2])
    /\ trim(lines[3]) = <<>>
    /\ ~inList
    /\ previousIndent = 0
    /\ Len(tasks) = 1

\* the text of a line after its indentation and its checkbox marker "- [ ] "
afterCheckbox(l) ==
    SubSeq(l, LeadingSpaces(l) + Len(Unchecked) + 1, Len(l))

HasTagToken(s) == \E q \in 1..(Len(s) - 1) : s[q] = "#" /\ IsTagChar(s[q + 1])

\* C29: each emitted string is the text of its line after the checkbox
\* marker, with the whitespace at both ends trimmed and its '#tag' tokens
\* still in it; indentation, list marker and checkbox are not part of it.
C29_EmittedTextIsTrimmedContent ==
    /\ Len(tasks) = Len(origin)
    /\ \A n \in 1..Len(tasks) :
          LET l == lines[origin[n]] IN
          /\ IsUncheckedLine(l)
          /\ tasks[n] = trim(afterCheckbox(l))
          /\ tasks[n] # <<>> => ~IsSpace(tasks[n][1]) /\ ~IsSpace(tasks[n][Len(tasks[n])])
          /\ HasTagToken(afterCheckbox(l)) => HasTagToken(tasks[n])

\* C29 witness: an indented line with blanks around its content and a tag in
\* it was emitted as the content with its tag.
C29_Witness ==
    \E n \in 1..Len(tasks) :
        /\ n <= Len(origin)
        /\ lines[origin[n]] = SpacedTagLine
        /\ tasks[n] = <<"G", " ">> \o UrgentTag

\* the step ends a call on the open, unfocused note whose editor holds the
\* content the call read, the setting on
EndsCallOnUnchangedOpenNote ==
    /\ EndsCallOn(editorContent)
    /\ viewFile = "note"
    /\ ~hasFocus
    /\ showEisenhowerMatrix

\* C30: isAddingTasks stops a write only when the user has added tasks: for
\* an open, unfocused note whose editor holds the content the replacement
\* was computed from, it returns false and the call does not end at it.
C30_NoBlockWithoutAddedTask ==
    [][EndsCallOnUnchangedOpenNote => ended' # "adding tasks"]_vars

\* the same for a content in which every checkbox is an unchecked top-level
\* task
NoBlockOnPlainContent ==
    [][(/\ EndsCallOnUnchangedOpenNote
        /\ countTasks(editorContent) = Len(extractTasksFromContent(editorContent)))
          => ended' # "adding tasks"]_vars

(***************************************************************************)
(* isEditingTagsNearby and the complete tags.                              *)
(***************************************************************************)
\* the lines, counted from 0, that are within two lines of the cursor
nearLines(content, cursorPos) ==
    { n \in 0..(Len(content) - 1) :
        n >= cursorPos.line - 2 /\ n <= cursorPos.line + 2 }

isTaskItemLine(lineText) == startsWith(trim(lineText), <<"-", " ", "[">>)

\* the number of word characters that follow position p of a line
RECURSIVE wordRun(_, _)
wordRun(line, p) ==
    IF p + 1 <= Len(line) /\ IsWordChar(line[p + 1])
    THEN 1 + wordRun(line, p + 1)
    ELSE 0

\* the tag that starts at a '#' of a line: the '#' and the word after it
tagAt(line, p) == SubSeq(line, p, p + wordRun(line, p))

CompleteTags == {UrgentTag, ImportantTag, LaterTag, EmatrixTag}

\* every '#' of the task lines near the cursor starts a tag of the set
nearbyTagsIn(content, cursorPos, tags) ==
    \A n \in nearLines(content, cursorPos) :
        LET lineText == content[n + 1] IN
        isTaskItemLine(lineText) =>
            \A p \in 1..Len(lineText) :
                lineText[p] = "#" => tagAt(lineText, p) \in tags

\* C31: isEditingTagsNearby returns false whenever every '#' tag on the
\* task lines within two lines of the cursor is one of the complete tags
\* '#urgent', '#important', '#later' and '#ematrix'.
C31_FalseWhenNearbyTagsComplete ==
    (viewFile = "note" /\ nearbyTagsIn(editorContent, cursor, CompleteTags))
        => ~isEditingTagsNearby(editorContent, cursor)

\* the same for the complete tags of more than six letters, which the
\* pattern of one to six letters cannot match
FalseWhenNearbyTagsLong ==
    (viewFile = "note"
        /\ nearbyTagsIn(editorContent, cursor, {ImportantTag, EmatrixTag}))
        => ~isEditingTagsNearby(editorContent, cursor)

\* the content with every line that is not near the cursor made empty
farLinesBlanked(content, cursorPos) ==
    [n \in 1..Len(content) |->
        IF n - 1 \in nearLines(content, cursorPos) THEN content[n] ELSE <<>>]

\* no line more than two lines away from the cursor is looked at: the
\* result is the result on the content whose far lines are empty
InspectsNearLinesOnly ==
    viewFile = "note"
        => isEditingTagsNearby(editorContent, cursor)
             = isEditingTagsNearby(farLinesBlanked(editorContent, cursor), cursor)

\* a task line with a short tag lies more than two lines from the cursor
\* and the function returns false
FarShortTagNotInspected ==
    /\ viewFile = "note"
    /\ ~isEditingTagsNearby(editorContent, cursor)
    /\ \E n \in (0..(Len(editorContent) - 1)) \ nearLines(editorContent, cursor) :
          /\ isTaskItemLine(editorContent[n + 1])
          /\ \E p \in 1..Len(editorContent[n + 1]) :
                shortTagAt(editorContent[n + 1], p)
                  /\ hasCommonPrefix(editorContent[n + 1], p)

(***************************************************************************)
(* processFile on a content without tasks.                                 *)
(***************************************************************************)
\* the content holds '#ematrix' and extractTasksFromContent returns no task
tasksOfTable == [c \in ContentPool |-> extractTasksFromContent(c)]
tasksOf(content) ==
    IF content \in ContentPool
    THEN tasksOfTable[content]
    ELSE extractTasksFromContent(content)

TaggedWithoutTasks(content) ==
    /\ contentFactsOf(content).hasTag
    /\ tasksOf(content) = <<>>

\* the matrix in which every section holds its placeholder
AllPlaceholderMatrix == createEisenhowerMatrixContent(<<>>, Basename)

\* C32: a call of processFile whose read gave a content that holds
\* '#ematrix' and from which no task is extracted writes nothing, with
\* either value of the setting: the file and the text of the editor are
\* left as they are, and no write puts the matrix without tasks in the note.
C32_NoWriteWithoutTasks ==
    [][/\ \A call \in BagToSet(calls) :
            calls' = remove(calls, call) =>
              /\ \A content \in {call.issued, vaultContent} :
                    TaggedWithoutTasks(content) =>
                      \A setting \in BOOLEAN :
                         afterRead(content, call.activeView /\ viewFile = "note",
                                   editorContent, cursor, hasFocus,
                                   setting).outcome \notin Writes
              /\ (\A content \in {call.issued, vaultContent} :
                     TaggedWithoutTasks(content))
                    => /\ ended' \notin Writes
                       /\ vaultContent' = vaultContent
                       /\ editorContent' = editorContent
       /\ ended' \in Writes => written # AllPlaceholderMatrix]_vars

\* C32 witness: a call has ended at the test of the task list on a file
\* that holds the tag and no task to extract.
C32_Witness ==
    /\ ended = "no tasks"
    /\ TaggedWithoutTasks(vaultContent)

(***************************************************************************)
(* processFile and the short-file test.                                    *)
(***************************************************************************)
\* the content is shorter than fifty characters and holds '- [ ]'
ShortWithBox(content) ==
    length(content) < ShortFileLength /\ includes(content, UncheckedBox)

\* C33: a call of processFile whose read gave a content shorter than fifty
\* characters that holds '- [ ]' writes nothing and leaves file and editor
\* text as they are; and a call that returns at the short-file test has read
\* such a content, so a content of fifty characters or more is not skipped
\* by the test.
C33_ShortFileNotWritten ==
    [][\A call \in BagToSet(calls) :
          calls' = remove(calls, call) =>
            /\ (\A content \in {call.issued, vaultContent} : ShortWithBox(content))
                  => /\ ended' \notin Writes
                     /\ vaultContent' = vaultContent
                     /\ editorContent' = editorContent
            /\ ended' = "too short"
                  => \E content \in {call.issued, vaultContent} :
                        ShortWithBox(content)]_vars

\* C33 witness: a call has returned at the short-file test on the note of
\* forty-nine characters.
C33_Witness ==
    /\ ended = "too short"
    /\ vaultContent = noteOfLength(ShortFileLength - 1)

\* the note of fifty characters has been replaced by the matrix of its task
NoteOfFiftyReplaced ==
    /\ ended = "modify"
    /\ showEisenhowerMatrix
    /\ vaultContent = matrixOf(noteOfLength(ShortFileLength))

(***************************************************************************)
(* The 'file-open' handler.                                                *)
(***************************************************************************)
\* the step is the opening of the note
OpensNote == viewFile = "none" /\ viewFile' = "note"

\* the content holds both markers of a rendered matrix
IsRendered(content) ==
    /\ contentFactsOf(content).hasFence
    /\ contentFactsOf(content).hasContainer

RenderedNoteWithTasksOpened ==
    /\ viewFile = "note"
    /\ IsRendered(vaultContent)
    /\ contentFactsOf(vaultContent).countTasks > 0
    /\ editorContent = vaultContent
    /\ inFlight = 0
    /\ ~debouncePending
    /\ ended = "none"
    /\ ~commandRun

\* the opening of a note has started a call
CallStartedByOpening ==
    /\ viewFile = "note"
    /\ ~hasFocus
    /\ editorContent = vaultContent
    /\ calls = SetToBag({[activeView |-> TRUE, issued |-> vaultContent]})
    /\ ended = "none"
    /\ ~commandRun

(***************************************************************************)
(* The two extractors.                                                     *)
(***************************************************************************)
\* the line is a checked checklist line
IsCheckedChecklistLine(l) == taskMatch(l).ok /\ taskMatch(l).g2 = "x"

\* a checked checklist line with a blank in the place of its x
uncheck(l) ==
    IF IsCheckedChecklistLine(l)
    THEN [l EXCEPT ![LeadingSpaces(l) + 4] = " "]
    ELSE l
uncheckAll(ls) == [n \in 1..Len(ls) |-> uncheck(ls[n])]

\* C35: on the text of the editor, extractTopLevelTasks returns what
\* extractTasksFromContent returns on the same text in which every checked
\* checklist line is made an unchecked one: it takes a checked item as an
\* unchecked one, for the push and for the list context, and differs in
\* nothing else; so on a document without checked checklist line the two
\* return the same sequence.
C35_ExtractorsAgreeWithoutChecked ==
    (pc = "top returned" /\ viewFile = "note") =>
        /\ tasks = extractTasksFromContent(uncheckAll(lines))
        /\ (\A n \in 1..Len(lines) : ~IsCheckedChecklistLine(lines[n]))
              => tasks = extractTasksFromContent(lines)

\* C35 witness: extractTopLevelTasks has returned on a document without
\* checked line in which a nested task follows a top-level task.
C35_Witness ==
    /\ pc = "top returned"
    /\ viewFile = "note"
    /\ \A n \in 1..Len(lines) : ~IsCheckedChecklistLine(lines[n])
    /\ Len(lines) >= 2
    /\ taskMatch(lines[1]).ok /\ indentation(taskMatch(lines[1])) = 0
    /\ taskMatch(lines[2]).ok /\ indentation(taskMatch(lines[2])) # 0
    /\ tasks # <<>>
    /\ Len(tasks) < Len(lines)

\* on a document with a checked line the two extractors have returned
\* sequences of which neither holds all tasks of the other
ExtractorsDifferOnChecked ==
    /\ pc = "top returned"
    /\ viewFile = "note"
    /\ \E t \in Range(tasks) : t \notin Range(extractTasksFromContent(lines))
    /\ \E t \in Range(extractTasksFromContent(lines)) : t \notin Range(tasks)

(***************************************************************************)
(* previousIndent is written and never read.                               *)
(***************************************************************************)
\* the lines the loop has gone through
scanned == SubSeq(lines, 1, i - 1)

\* C36: whatever value previousIndent is given between two lines, after
\* every line the tasks pushed and the value of inList are what the lines
\* gone through alone determine, and so is the sequence returned: no
\* decision of extractTasksFromContent reads previousIndent.
C36_PreviousIndentNeverRead ==
    /\ tasks = extractTasksFromContent(scanned)
    /\ inList = inListAfter(scanned, FALSE)
    /\ pc = "returned" => tasks = extractTasksFromContent(lines)

\* C36 witness: the second and last line, an indented unchecked line under
\* a top-level task, has been gone through and not pushed although
\* previousIndent, 0 after the first line, had been given its indentation or
\* more before it.
C36_Witness ==
    /\ Len(lines) = 2
    /\ i = 3
    /\ taskMatch(lines[2]).ok
    /\ ~isCompleted(taskMatch(lines[2]))
    /\ indentation(taskMatch(lines[2])) > 0
    /\ 2 \notin Range(origin)
    /\ 1 \in Range(origin)
    /\ indentation(taskMatch(lines[1])) = 0
    /\ previousIndent >= indentation(taskMatch(lines[2]))

====
